---- MODULE Spec2Model ----
(***************************************************************************)
(* Verification model of the open-llm-router gateway: model resolution,    *)
(* registry reload, the three stream normalizers, the classification of    *)
(* upstream failures and the credentials of a backend.                     *)
(***************************************************************************)
EXTENDS Integers, Sequences, FiniteSets, TLC

VARIABLES
    BACKENDS_CONFIG,   \* the process-wide registry (llm_proxy.py:115)
    call,              \* the last resolver call and its outcome
    req,               \* the chat-completion request being routed (its locals)
    reloads,           \* reload_backends calls so far
    kind,              \* which stream normalizer runs
    upstream,          \* the whole upstream body of the stream
    pending,           \* the part of it that has not arrived yet
    chunks,            \* chunks the upstream has delivered so far
    st,                \* the normalizer: its position, locals and emitted events
    http,              \* one POST /v1/chat/completions on its way through the core
    environ,           \* os.environ: when the service was imported, and now
    calls,             \* the calls made so far, with what each returned or raised
    payload            \* an upstream JSON object and what the formatter made of it

\* ---------------------------------------------------------------- bounds
MaxBackends == 2   \* backends in a registry
MaxAliases == 2    \* entries of the alias table
MaxReloads == 2    \* reload_backends calls in one run
MaxRequests == 2   \* calls in one run of the credential and the repeated resolver
MaxParts == 2      \* parts of a Gemini candidate
MaxLines == 3      \* SSE lines of an upstream stream
MaxElems == 2      \* objects of a Gemini array body
MaxChunks == 2     \* chunks the transport cuts one upstream body into

\* ------------------------------------------------------- generic helpers
Min(S) == CHOOSE x \in S : \A y \in S : x <= y

\* str.startswith(prefix)
StartsWith(s, p) ==
    /\ Len(p) <= Len(s)
    /\ \A k \in 1..Len(p) : s[k] = p[k]

SubsetsUpTo(S, n) == {T \in SUBSET S : Cardinality(T) <= n}

SeqsUpTo(S, n) == UNION {[1..k -> S] : k \in 0..n}

Last(s) == s[Len(s)]

\* s[k:] of Python, for k >= 0
DropFirst(s, k) == IF k >= Len(s) THEN <<>> ELSE SubSeq(s, k + 1, Len(s))

\* s[k:] of Python for any integer k: a negative k counts from the end
PySliceFrom(s, k) ==
    IF k >= 0 THEN DropFirst(s, k)
    ELSE IF -k >= Len(s) THEN s
    ELSE SubSeq(s, Len(s) + k + 1, Len(s))

IsSpace(c) == c = " "

RECURSIVE LStrip(_)
LStrip(s) == IF s # <<>> /\ IsSpace(s[1]) THEN LStrip(Tail(s)) ELSE s

RECURSIVE RStrip(_)
RStrip(s) == IF s # <<>> /\ IsSpace(Last(s)) THEN RStrip(SubSeq(s, 1, Len(s) - 1)) ELSE s

\* str.strip()
Strip(s) == RStrip(LStrip(s))

\* ------------------------------------------------------------- registry
\* Model identifiers and prefixes are character sequences.
ModelIds == {<<"g">>, <<"g", "p">>, <<"c">>}
PrefixIds == {<<"g">>}
BackendNames == <<"openai", "claude", "gemini">>

\* One backend descriptor of the normalized table.
Descriptor(n, ms, ps) ==
    [name |-> n, models |-> ms, model_prefixes |-> ps]

DescriptorsAt(n) ==
    {Descriptor(BackendNames[n], ms, ps) : ms \in SUBSET ModelIds, ps \in SUBSET PrefixIds}

\* the backend tables of 1..n backends, in dictionary (insertion) order
BackendTables(n) ==
    UNION {{t \in [1..m -> UNION {DescriptorsAt(k) : k \in 1..m}] :
                \A k \in 1..m : t[k] \in DescriptorsAt(k)} : m \in 1..n}

\* the alias tables of up to n entries
AliasTables(n) ==
    UNION {[D -> ModelIds] : D \in SubsetsUpTo(ModelIds, n)}

\* The normalized registries the loader can hand to the core.
Registries(nb, na) ==
    {[backends |-> b, model_aliases |-> a, providers |-> ""] :
        b \in BackendTables(nb), a \in AliasTables(na)}

\* ------------------------------------------------------------- resolver
\* an unknown model handed to the first backend instead of being refused
UnknownModelDefaulted(m) == [status |-> 200, backend |-> "openai", detail |-> <<>>]

\* raise HTTPException(status_code=400, detail=f"Unknown model '{model}'")
UnknownModel(m) == [status |-> 400, backend |-> "", detail |-> <<"Unknown model", m>>]
\* return backend_name
Resolved(b) == [status |-> 200, backend |-> b, detail |-> <<>>]

\* the alias table followed to its end
AliasHopChained(aliases, model) ==
    LET RECURSIVE Follow(_, _)
        Follow(m, fuel) ==
            IF fuel > 0 /\ m \in DOMAIN aliases THEN Follow(aliases[m], fuel - 1) ELSE m
    IN Follow(model, Cardinality(DOMAIN aliases))

\* the alias table left unread
AliasHopIgnored(aliases, model) == model

\* the alias step: one dictionary lookup
AliasHop(aliases, model) ==
    IF model \in DOMAIN aliases THEN aliases[model] ELSE model

\* the exact match taken from the end of the dictionary
ExactMatchLast(backends, model) ==
    LET hit == {k \in 1..Len(backends) : model \in backends[k].models}
    IN IF hit = {} THEN 0 ELSE CHOOSE k \in hit : \A j \in hit : j <= k

\* first loop: exact match, in dictionary (insertion) order
ExactMatch(backends, model) ==
    LET hit == {k \in 1..Len(backends) : model \in backends[k].models}
    IN IF hit = {} THEN 0 ELSE Min(hit)

\* second loop: prefix match, in dictionary (insertion) order
PrefixMatch(backends, model) ==
    LET hit == {k \in 1..Len(backends) :
                    \E p \in backends[k].model_prefixes : StartsWith(model, p)}
    IN IF hit = {} THEN 0 ELSE Min(hit)

\* the prefix loop run before the exact loop
MatchBackendPrefixFirst(backends, model) ==
    LET e == ExactMatch(backends, model)
        p == PrefixMatch(backends, model)
    IN IF p # 0 THEN Resolved(backends[p].name)
       ELSE IF e # 0 THEN Resolved(backends[e].name)
       ELSE UnknownModel(model)

\* the two loops and the final raise, on the already aliased model
MatchBackend(backends, model) ==
    LET e == ExactMatch(backends, model)
        p == PrefixMatch(backends, model)
    IN IF e # 0 THEN Resolved(backends[e].name)
       ELSE IF p # 0 THEN Resolved(backends[p].name)
       ELSE UnknownModel(model)

get_backend_for_model(cfg, model) ==
    MatchBackend(cfg.backends, AliasHop(cfg.model_aliases, model))

\* ----------------------------------------------- resolver specification
NoCall == [model |-> <<>>, result |-> Resolved("")]

NoRequest ==
    [pc |-> "idle", model |-> <<>>, model_aliases |-> <<>>, backends |-> <<>>,
     backend_name |-> "", config |-> <<>>, gemini_base_url |-> "", status |-> 0,
     detail |-> ""]

\* no stream is being normalized
NoStream ==
    /\ kind = "none"
    /\ upstream = <<>>
    /\ pending = <<>>
    /\ chunks = 0
    /\ st = [pc |-> "closed", out |-> <<>>]

\* no chat completion is under way
NoHttp == [pc |-> "none"]

NoAux ==
    /\ environ = [at_import |-> <<>>, now |-> <<>>]
    /\ calls = <<>>
    /\ payload = [data |-> <<>>, by |-> "", out |-> <<>>]

routerVars == <<BACKENDS_CONFIG, call, req, reloads>>
auxVars == <<environ, calls, payload>>
streamVars == <<kind, upstream, pending, chunks, st>>

InitResolve ==
    /\ BACKENDS_CONFIG \in Registries(MaxBackends, MaxAliases)
    /\ call = NoCall
    /\ req = NoRequest
    /\ reloads = 0
    /\ NoStream
    /\ http = NoHttp
    /\ NoAux

\* a caller resolves one model against the loaded registry
Resolve(m) ==
    /\ call' = [model |-> m, result |-> get_backend_for_model(BACKENDS_CONFIG, m)]
    /\ UNCHANGED <<BACKENDS_CONFIG, req, reloads, streamVars, http, auxVars>>

NextResolve == \E m \in ModelIds : Resolve(m)

vars ==
    <<BACKENDS_CONFIG, call, req, reloads, kind, upstream, pending, chunks, st, http,
      environ, calls, payload>>

SpecResolve == InitResolve /\ [][NextResolve]_vars

\* ------------------------------------------------ reload while routing
\* handle_gemini_request's default for providers.gemini.base_url
DefaultGeminiUrl == "https://generativelanguage.googleapis.com/v1beta"

\* The tables load_backends returns over a run.  providers is the table's
\* providers.gemini.base_url, "" when it has no such key: load_backends
\* returns either the converted table or a file without a providers key.
ReloadTables ==
    { [backends |-> <<Descriptor("openai", {<<"g">>}, {})>>,
       model_aliases |-> <<>>, providers |-> ""],
      [backends |-> <<Descriptor("gemini", {<<"g">>}, {})>>,
       model_aliases |-> (<<"c">> :> <<"g">>), providers |-> ""],
      [backends |-> <<Descriptor("gemini", {<<"c">>}, {}),
                      Descriptor("openai", {<<"g">>}, {<<"g">>})>>,
       model_aliases |-> (<<"g">> :> <<"c">>), providers |-> ""] }

\* backends[backend_name]
Lookup(backends, name) ==
    backends[CHOOSE k \in 1..Len(backends) : backends[k].name = name]

InTable(backends, name) == \E k \in 1..Len(backends) : backends[k].name = name

\* BACKENDS_CONFIG.get("providers", {}).get("gemini", {}).get("base_url", default)
GeminiBaseUrl(cfg) == IF cfg.providers = "" THEN DefaultGeminiUrl ELSE cfg.providers

InitReload ==
    /\ BACKENDS_CONFIG \in ReloadTables
    /\ call = NoCall
    /\ req = NoRequest
    /\ reloads = 0
    /\ NoStream
    /\ http = NoHttp
    /\ NoAux

\* proxy_chat_completions reaches choose_backend(model)
StartRequest(m) ==
    /\ req.pc \in {"idle", "done"}
    /\ req' = [NoRequest EXCEPT !.pc = "gbfm_aliases", !.model = m]
    /\ UNCHANGED <<BACKENDS_CONFIG, call, reloads, streamVars, http, auxVars>>

\* get_backend_for_model: model_aliases = BACKENDS_CONFIG.get("model_aliases", {})
ReadAliases ==
    /\ req.pc = "gbfm_aliases"
    /\ req' = [req EXCEPT !.model_aliases = BACKENDS_CONFIG.model_aliases,
                          !.pc = "gbfm_backends"]
    /\ UNCHANGED <<BACKENDS_CONFIG, call, reloads, streamVars, http, auxVars>>

\* get_backend_for_model: backends = BACKENDS_CONFIG.get("backends", {}), the
\* two loops over it, and the return or the raise
ReadBackends ==
    /\ req.pc = "gbfm_backends"
    /\ LET backends == BACKENDS_CONFIG.backends
           r == MatchBackend(backends, AliasHop(req.model_aliases, req.model))
       IN req' = IF r.status = 200
                 THEN [req EXCEPT !.backends = backends, !.backend_name = r.backend,
                                  !.pc = "cb_backends"]
                 ELSE [req EXCEPT !.backends = backends, !.status = 400,
                                  !.detail = "Unknown model", !.pc = "done"]
    /\ UNCHANGED <<BACKENDS_CONFIG, call, reloads, streamVars, http, auxVars>>

\* choose_backend: backends = BACKENDS_CONFIG.get("backends", {}), the
\* membership test and the descriptor it returns
ChooseReadBackends ==
    /\ req.pc = "cb_backends"
    /\ LET backends == BACKENDS_CONFIG.backends
       IN req' = IF ~InTable(backends, req.backend_name)
                 THEN [req EXCEPT !.status = 400, !.detail = "Backend not found",
                                  !.pc = "done"]
                 ELSE [req EXCEPT !.config = Lookup(backends, req.backend_name),
                                  !.status = 200,
                                  !.pc = IF req.backend_name = "gemini"
                                         THEN "gemini_url" ELSE "done"]
    /\ UNCHANGED <<BACKENDS_CONFIG, call, reloads, streamVars, http, auxVars>>

\* handle_gemini_request: original_config = BACKENDS_CONFIG.get("providers", {})
GeminiReadUrl ==
    /\ req.pc = "gemini_url"
    /\ req' = [req EXCEPT !.gemini_base_url = GeminiBaseUrl(BACKENDS_CONFIG),
                          !.pc = "done"]
    /\ UNCHANGED <<BACKENDS_CONFIG, call, reloads, streamVars, http, auxVars>>

\* reload_backends, a synchronous endpoint run on a worker thread:
\* BACKENDS_CONFIG = load_backends()
ReloadBackends ==
    /\ reloads < MaxReloads
    /\ BACKENDS_CONFIG' \in ReloadTables
    /\ reloads' = reloads + 1
    /\ UNCHANGED <<call, req, streamVars, http, auxVars>>

\* reload_backends when load_backends raises: the except branch answers
\* "error" and the global keeps its value
ReloadFails ==
    /\ reloads < MaxReloads
    /\ reloads' = reloads + 1
    /\ UNCHANGED <<BACKENDS_CONFIG, call, req, streamVars, http, auxVars>>

NextReload ==
    \/ \E m \in ModelIds : StartRequest(m)
    \/ ReadAliases
    \/ ReadBackends
    \/ ChooseReadBackends
    \/ GeminiReadUrl
    \/ ReloadBackends
    \/ ReloadFails

SpecReload == InitReload /\ [][NextReload]_vars

\* choose_backend and the adapter's URL lookup run against one table
RouteInSnapshot(cfg, model) ==
    LET r == get_backend_for_model(cfg, model)
    IN IF r.status # 200
       THEN [NoRequest EXCEPT !.status = 400, !.detail = "Unknown model"]
       ELSE [NoRequest EXCEPT !.status = 200, !.backend_name = r.backend,
                              !.config = Lookup(cfg.backends, r.backend),
                              !.gemini_base_url =
                                  IF r.backend = "gemini" THEN GeminiBaseUrl(cfg) ELSE ""]

\* what the request ended with: status, backend name, descriptor, Gemini URL
Outcome(r) ==
    [NoRequest EXCEPT !.status = r.status, !.detail = r.detail,
                      !.backend_name = r.backend_name, !.config = r.config,
                      !.gemini_base_url = r.gemini_base_url]

\* C6: a routed request uses one registry snapshot: what it ends with (the
\* backend name, the descriptor, the Gemini base URL, or the Unknown model
\* error) is what routing it against one single table gives, whatever
\* reloads happen meanwhile.
C6_OneSnapshot ==
    req.pc = "done" => \E t \in ReloadTables : Outcome(req) = RouteInSnapshot(t, req.model)


\* ------------------------------------------------------- stream events
\* What a normalizer yields: "data: {chunk}", "data: {error}", "data: [DONE]".
DoneEvent == [type |-> "done", content |-> <<>>, finish_reason |-> ""]
ErrorEvent == [type |-> "error", content |-> <<>>, finish_reason |-> ""]
\* a chat.completion.chunk: delta.content and finish_reason ("" is null)
ChunkEvent(text, finish) == [type |-> "chunk", content |-> text, finish_reason |-> finish]

\* The locals of a normalizer at its first statement.
StreamStart ==
    [pc |-> "reading", out |-> <<>>, failed |-> FALSE, text_accum |-> <<>>,
     buffer |-> <<>>, started |-> FALSE, ended |-> FALSE, brace_level |-> 0,
     obj_buffer |-> <<>>, inside_obj |-> FALSE, i |-> 0]

\* ------------------------------------------------------ upstream SSE lines
\* One line of an upstream event stream: whether it starts with "data: ",
\* what json.loads makes of the rest, and the fields the normalizers read.
Line(data, json, type, text, finish) ==
    [data |-> data, json |-> json, type |-> type, text |-> text, finish |-> finish]

DoneLine == Line(TRUE, "done", "", <<>>, "")
InvalidLine == Line(TRUE, "invalid", "", <<>>, "")
ScalarLine == Line(TRUE, "scalar", "", <<>>, "")
NonDataLine == Line(FALSE, "", "", <<>>, "")
ChoicesLine(text, finish) == Line(TRUE, "object", "choices", text, finish)
BareLine(text, finish) == Line(TRUE, "object", "bare", text, finish)
DeltaLine(text) == Line(TRUE, "object", "content_block_delta", text, "")
StopLine == Line(TRUE, "object", "message_stop", <<>>, "")
PingLine == Line(TRUE, "object", "ping", <<>>, "")

OpenAILines ==
    {DoneLine, InvalidLine, ScalarLine, NonDataLine,
     ChoicesLine(<<"a">>, ""), ChoicesLine(<<>>, "stop"), BareLine(<<"b">>, "")}

ClaudeLines ==
    {DoneLine, InvalidLine, ScalarLine, NonDataLine,
     DeltaLine(<<"a">>), DeltaLine(<<"b">>), DeltaLine(<<>>), StopLine, PingLine}

\* A line the transport cut in two: the first piece keeps the "data: "
\* prefix and is no longer JSON, the second piece has no prefix.
CutHead(line) == IF line.data THEN InvalidLine ELSE NonDataLine
CutTail(line) == NonDataLine

\* the except branch of an SSE normalizer: an error event, then [DONE]
StreamHandler(s) ==
    [s EXCEPT !.out = s.out \o <<ErrorEvent, DoneEvent>>, !.pc = "closed"]

\* BaseProvider.stream_response: the body of "for line in lines"
OpenAILineStep(s, line) ==
    IF ~line.data THEN s
    ELSE IF line.json = "done" THEN [s EXCEPT !.out = Append(@, DoneEvent), !.pc = "closed"]
    ELSE IF line.json = "invalid" THEN s
    ELSE IF line.json = "scalar" THEN StreamHandler(s)
    ELSE [s EXCEPT !.out = Append(@, ChunkEvent(line.text, line.finish))]

\* ClaudeProvider.claude_stream_response: the body of "for line in lines"
ClaudeLineStep(s, line) ==
    IF ~line.data THEN s
    ELSE IF line.json = "done" THEN [s EXCEPT !.out = Append(@, DoneEvent), !.pc = "closed"]
    ELSE IF line.json = "invalid" THEN s
    ELSE IF line.json = "scalar" THEN StreamHandler(s)
    ELSE IF line.type = "content_block_delta"
         THEN IF line.text = <<>> THEN s
              ELSE [s EXCEPT !.text_accum = @ \o line.text,
                             !.out = Append(@, ChunkEvent(line.text, ""))]
    ELSE IF line.type = "message_stop"
         THEN [s EXCEPT !.out = @ \o <<ChunkEvent(<<>>, "stop"), DoneEvent>>,
                        !.pc = "closed"]
    ELSE s

LineStep(k, s, line) ==
    IF k = "openai" THEN OpenAILineStep(s, line) ELSE ClaudeLineStep(s, line)

\* the lines of one chunk, in order, until the generator returns
RECURSIVE RunLines(_, _, _)
RunLines(k, s, lines) ==
    IF lines = <<>> \/ s.pc = "closed" THEN s
    ELSE RunLines(k, LineStep(k, s, Head(lines)), Tail(lines))

\* -------------------------------------------------- Gemini array bodies
\* Bodies are character sequences over a small JSON dialect:
\*   body   ::= "[" object ("," " " object)* "]"
\*   object ::= "{" [ "{" part* "}" ] [ finish ] "}"
\*   part   ::= QUOTE char* QUOTE
\* The inner braces are candidates[0].content.parts, a part is a text part,
\* and finish is candidates[0].finishReason: S (STOP), M (MAX_TOKENS) or X
\* (a reason the map does not know).  "{}" is an object without candidates.
Quote == "\""
FinishTokens == {"S", "M", "X"}

GeminiObject(parts, finish) ==
    LET RECURSIVE Quoted(_)
        Quoted(ps) == IF ps = <<>> THEN <<>>
                      ELSE <<Quote>> \o Head(ps) \o <<Quote>> \o Quoted(Tail(ps))
    IN <<"{", "{">> \o Quoted(parts) \o <<"}">> \o finish \o <<"}">>

GeminiObjects ==
    { GeminiObject(<<<<"a">>>>, <<>>),
      GeminiObject(<<<<"a", "b">>>>, <<>>),
      GeminiObject(<<<<"b">>>>, <<"S">>),
      GeminiObject(<<<<"a">>, <<"b">>>>, <<>>),
      GeminiObject(<<<<"{">>>>, <<"M">>),
      <<"{", "X", "}">>,
      <<"{", "}">> }

RECURSIVE JoinObjects(_)
JoinObjects(objs) ==
    IF Len(objs) = 0 THEN <<>>
    ELSE IF Len(objs) = 1 THEN objs[1]
    ELSE objs[1] \o <<",", " ">> \o JoinObjects(Tail(objs))

GeminiBody(objs) == <<"[">> \o JoinObjects(objs) \o <<"]">>

GeminiBodies == {GeminiBody(objs) : objs \in SeqsUpTo(GeminiObjects, MaxElems)}

\* json.loads(obj_buffer) and the keys the conversion reads
ParseParts(b, from) ==
    LET RECURSIVE Parts(_, _)
        Parts(p, acc) ==
            IF p > Len(b) THEN [ok |-> FALSE, parts |-> acc, next |-> p]
            ELSE IF b[p] = "}" THEN [ok |-> TRUE, parts |-> acc, next |-> p + 1]
            ELSE IF b[p] = Quote
                 THEN LET close == {q \in (p + 1)..Len(b) : b[q] = Quote}
                      IN IF close = {} THEN [ok |-> FALSE, parts |-> acc, next |-> p]
                         ELSE Parts(Min(close) + 1,
                                    Append(acc, SubSeq(b, p + 1, Min(close) - 1)))
            ELSE [ok |-> FALSE, parts |-> acc, next |-> p]
    IN Parts(from, <<>>)

NotJson == [ok |-> FALSE, candidate |-> FALSE, content |-> FALSE, parts |-> <<>>, finish |-> ""]

ParseObject(b) ==
    IF Len(b) < 2 \/ b[1] # "{" \/ b[Len(b)] # "}" THEN NotJson
    ELSE LET n == Len(b)
             content == n > 2 /\ b[2] = "{"
             pr == IF content THEN ParseParts(SubSeq(b, 1, n - 1), 3)
                   ELSE [ok |-> TRUE, parts |-> <<>>, next |-> 2]
             rest == SubSeq(b, pr.next, n - 1)
         IN IF ~pr.ok THEN NotJson
            ELSE IF rest = <<>>
                 THEN [ok |-> TRUE, candidate |-> content, content |-> content,
                       parts |-> pr.parts, finish |-> ""]
            ELSE IF Len(rest) = 1 /\ rest[1] \in FinishTokens
                 THEN [ok |-> TRUE, candidate |-> TRUE, content |-> content,
                       parts |-> pr.parts, finish |-> rest[1]]
            ELSE NotJson

\* finish_reason_map.get(gemini_finish, "stop")
FinishReason(f) == IF f = "M" THEN "length" ELSE "stop"

\* every text taken as new text
PartDeltaWhole(text_accum, full_text) ==
    [text_accum |-> text_accum \o full_text, delta_text |-> full_text]

\* one text part against the accumulator: the new accumulator and the delta
PartDelta(text_accum, full_text) ==
    IF StartsWith(full_text, text_accum)
    THEN [text_accum |-> full_text, delta_text |-> DropFirst(full_text, Len(text_accum))]
    ELSE [text_accum |-> text_accum \o full_text, delta_text |-> full_text]

\* "for part in parts": delta_text keeps what the last text part gave
RECURSIVE PartsLoop(_, _, _)
PartsLoop(parts, text_accum, delta_text) ==
    IF parts = <<>> THEN [text_accum |-> text_accum, delta_text |-> delta_text]
    ELSE LET d == PartDelta(text_accum, Head(parts))
         IN PartsLoop(Tail(parts), d.text_accum, d.delta_text)

\* the conversion of one framed object, up to the reset after the try
ConvertObject(s) ==
    LET o == ParseObject(s.obj_buffer)
        d == IF o.content THEN PartsLoop(o.parts, s.text_accum, <<>>)
             ELSE [text_accum |-> s.text_accum, delta_text |-> <<>>]
        delta == IF d.delta_text # <<>> THEN <<ChunkEvent(d.delta_text, "")>> ELSE <<>>
    IN IF ~o.ok \/ ~o.candidate
       THEN [s EXCEPT !.inside_obj = FALSE, !.obj_buffer = <<>>]
       ELSE IF o.finish # ""
       THEN [s EXCEPT !.text_accum = d.text_accum,
                      !.out = @ \o delta \o <<ChunkEvent(<<>>, FinishReason(o.finish)), DoneEvent>>,
                      !.ended = TRUE, !.pc = "closed"]
       ELSE [s EXCEPT !.text_accum = d.text_accum, !.out = @ \o delta,
                      !.inside_obj = FALSE, !.obj_buffer = <<>>]

\* --------------------------------------------- Gemini incremental parser
\* a chunk arrives: the whitespace test, buffer += chunk, the removal of the
\* opening bracket, i = 0
GeminiFetch(s, chunk) ==
    IF Strip(chunk) = <<>> THEN s
    ELSE LET joined == s.buffer \o chunk
             lead == LStrip(joined)
         IN IF s.started THEN [s EXCEPT !.buffer = joined, !.i = 0, !.pc = "scanning"]
            ELSE IF StartsWith(lead, <<"[">>)
                 THEN [s EXCEPT !.buffer = Tail(lead), !.started = TRUE, !.i = 0,
                                !.pc = "scanning"]
            ELSE [s EXCEPT !.buffer = lead, !.i = 0, !.pc = "scanning"]

\* one iteration of "while i < len(buffer)"
GeminiChar(s) ==
    LET c == s.buffer[s.i + 1]
        grown == [s EXCEPT !.obj_buffer = Append(@, c)]
    IN IF ~s.inside_obj
       THEN IF c = "{"
            THEN [s EXCEPT !.inside_obj = TRUE, !.brace_level = 1, !.obj_buffer = <<"{">>,
                           !.i = @ + 1]
            ELSE [s EXCEPT !.i = @ + 1]
       ELSE IF c = "{" THEN [grown EXCEPT !.brace_level = @ + 1, !.i = @ + 1]
       ELSE IF c = "}"
            THEN IF s.brace_level - 1 = 0
                 THEN LET done == ConvertObject([grown EXCEPT !.brace_level = 0])
                      IN IF done.pc = "closed" THEN done ELSE [done EXCEPT !.i = @ + 1]
                 ELSE [grown EXCEPT !.brace_level = @ - 1, !.i = @ + 1]
       ELSE [grown EXCEPT !.i = @ + 1]

\* "if not ended: yield [DONE]" after the loop over the chunks
GeminiFinish(s) ==
    IF s.ended THEN [s EXCEPT !.pc = "closed"]
    ELSE [s EXCEPT !.out = Append(@, DoneEvent), !.pc = "closed"]

\* after the while loop: the trim of the buffer and the end-of-array test
GeminiTrim(s) ==
    LET kept == IF ~s.inside_obj THEN PySliceFrom(s.buffer, s.i)
                ELSE PySliceFrom(s.buffer, s.i - Len(s.obj_buffer))
        t == [s EXCEPT !.buffer = kept]
    IN IF StartsWith(Strip(kept), <<"]">>) THEN GeminiFinish(t)
       ELSE [t EXCEPT !.pc = "reading"]

\* ProxyLogger.error(self, message, **kwargs) takes one positional argument;
\* the Gemini handler passes it two.
LoggerErrorPositionals == 1
GeminiHandlerPositionals == 2

\* the except branch of gemini_stream_response: the logger call, then the
\* error event and [DONE]
GeminiHandler(s) ==
    IF GeminiHandlerPositionals > LoggerErrorPositionals
    THEN [s EXCEPT !.pc = "raised"]
    ELSE StreamHandler(s)

\* -------------------------------------------------- stream specification
StreamKinds == {"openai", "claude", "gemini"}

UpstreamBodies(k) ==
    IF k = "openai" THEN SeqsUpTo(OpenAILines, MaxLines)
    ELSE IF k = "claude" THEN SeqsUpTo(ClaudeLines, MaxLines)
    ELSE GeminiBodies

InitStream ==
    /\ BACKENDS_CONFIG = <<>>
    /\ call = NoCall
    /\ req = NoRequest
    /\ reloads = 0
    /\ kind \in StreamKinds
    /\ upstream \in UpstreamBodies(kind)
    /\ pending = upstream
    /\ chunks = 0
    /\ st = StreamStart
    /\ http = NoHttp
    /\ NoAux

\* how much the next chunk may carry: anything, but the last chunk the
\* transport is allowed carries all the rest
ChunkSizes == IF chunks + 1 >= MaxChunks THEN {Len(pending)} ELSE 1..Len(pending)

\* aiter_text yields a chunk of an event stream: n whole lines and, when
\* the transport cuts a line, the first piece of the next one
SSEChunk ==
    /\ kind \in {"openai", "claude"}
    /\ st.pc = "reading"
    /\ pending # <<>>
    /\ \E n \in ChunkSizes \cup {0}, cut \in BOOLEAN :
        /\ cut => n < Len(pending) /\ chunks + 1 < MaxChunks
        /\ ~cut => n > 0
        /\ LET whole == SubSeq(pending, 1, n)
               chunk == IF cut THEN Append(whole, CutHead(pending[n + 1])) ELSE whole
               rest == IF cut THEN <<CutTail(pending[n + 1])>> \o DropFirst(pending, n + 1)
                       ELSE DropFirst(pending, n)
           IN /\ st' = RunLines(kind, st, chunk)
              /\ pending' = rest
    /\ chunks' = chunks + 1
    /\ UNCHANGED <<routerVars, http, auxVars, kind, upstream>>

\* aiter_text yields a chunk of a Gemini body: its next n characters
GeminiChunk ==
    /\ kind = "gemini"
    /\ st.pc = "reading"
    /\ pending # <<>>
    /\ \E n \in ChunkSizes :
        /\ st' = GeminiFetch(st, SubSeq(pending, 1, n))
        /\ pending' = DropFirst(pending, n)
    /\ chunks' = chunks + 1
    /\ UNCHANGED <<routerVars, http, auxVars, kind, upstream>>

GeminiScan ==
    /\ kind = "gemini"
    /\ st.pc = "scanning"
    /\ st.i < Len(st.buffer)
    /\ st' = GeminiChar(st)
    /\ UNCHANGED <<routerVars, http, auxVars, kind, upstream, pending, chunks>>

GeminiEndOfChunk ==
    /\ kind = "gemini"
    /\ st.pc = "scanning"
    /\ st.i >= Len(st.buffer)
    /\ st' = GeminiTrim(st)
    /\ UNCHANGED <<routerVars, http, auxVars, kind, upstream, pending, chunks>>

\* aiter_text is exhausted: the statement after the loop over the chunks
StreamEnd ==
    /\ st.pc = "reading"
    /\ pending = <<>>
    /\ st' = IF kind = "gemini" THEN GeminiFinish(st)
             ELSE [st EXCEPT !.out = Append(@, DoneEvent), !.pc = "closed"]
    /\ UNCHANGED <<routerVars, http, auxVars, kind, upstream, pending, chunks>>

\* aiter_text raises (the upstream connection fails): the except branch
UpstreamRaises ==
    /\ st.pc = "reading"
    /\ st' = IF kind = "gemini" THEN GeminiHandler([st EXCEPT !.failed = TRUE])
             ELSE StreamHandler([st EXCEPT !.failed = TRUE])
    /\ UNCHANGED <<routerVars, http, auxVars, kind, upstream, pending, chunks>>

NextStream ==
    \/ SSEChunk
    \/ GeminiChunk
    \/ GeminiScan
    \/ GeminiEndOfChunk
    \/ StreamEnd
    \/ UpstreamRaises

SpecStream == InitStream /\ [][NextStream]_vars

\* the whole body in one chunk, run to the end of the generator
RECURSIVE GeminiScanAll(_)
GeminiScanAll(s) ==
    IF s.pc = "scanning" /\ s.i < Len(s.buffer) THEN GeminiScanAll(GeminiChar(s)) ELSE s

GeminiOneChunk(body) ==
    LET fetched == GeminiFetch(StreamStart, body)
        scanned == GeminiScanAll(fetched)
        trimmed == IF scanned.pc = "scanning" THEN GeminiTrim(scanned) ELSE scanned
    IN IF trimmed.pc = "reading" THEN GeminiFinish(trimmed) ELSE trimmed

\* ------------------------------------------------------- stream claims
Terminated == st.pc \in {"closed", "raised"}
DoneCount == Cardinality({k \in 1..Len(st.out) : st.out[k] = DoneEvent})
FinishCount ==
    Cardinality({k \in 1..Len(st.out) :
                    st.out[k].type = "chunk" /\ st.out[k].finish_reason # ""})

\* C1: whatever the upstream sends and also when reading it fails, the
\* output of each of the three normalizers holds exactly one [DONE] event
\* and that event is the last one.
C1_OneDoneLast ==
    Terminated => /\ DoneCount = 1
                  /\ st.out # <<>>
                  /\ Last(st.out) = DoneEvent

\* C2: for a Gemini body read to its end, the emitted events do not depend
\* on where the transport cut the body: they are the events of the same body
\* delivered as one chunk.
C2_ChunkingIndependent ==
    (kind = "gemini" /\ Terminated /\ ~st.failed) =>
        st.out = GeminiOneChunk(upstream).out

\* an Anthropic event stream: deltas, pings and event: lines, closed by at
\* most one message_stop, which then is its last line
ClaudeEvents == {DeltaLine(<<"a">>), DeltaLine(<<"b">>), DeltaLine(<<>>), PingLine, NonDataLine}
AnthropicStream ==
    /\ kind = "claude"
    /\ upstream # <<>>
    /\ \A k \in 1..(Len(upstream) - 1) : upstream[k] \in ClaudeEvents
    /\ Last(upstream) \in ClaudeEvents \cup {StopLine}

\* C7: a Claude stream that ends with message_stop yields exactly one
\* chunk carrying a finish_reason, directly followed by exactly one [DONE];
\* a Claude stream that ends without message_stop, the connection dropping
\* included, yields no such chunk and exactly one [DONE].
C7_ClaudeTerminal ==
    (AnthropicStream /\ Terminated) =>
        /\ (Last(upstream) = StopLine /\ ~st.failed) =>
                /\ FinishCount = 1
                /\ DoneCount = 1
                /\ Len(st.out) >= 2
                /\ st.out[Len(st.out) - 1] = ChunkEvent(<<>>, "stop")
                /\ Last(st.out) = DoneEvent
        /\ Last(upstream) # StopLine =>
                /\ FinishCount = 0
                /\ DoneCount = 1

\* the scan is about to close an object that holds exactly one text part
ClosesOneTextObject ==
    /\ kind = "gemini"
    /\ st.pc = "scanning"
    /\ st.i < Len(st.buffer)
    /\ st.inside_obj
    /\ st.brace_level = 1
    /\ st.buffer[st.i + 1] = "}"
    /\ LET o == ParseObject(Append(st.obj_buffer, "}"))
       IN o.ok /\ o.content /\ Len(o.parts) = 1

Timeout == [result |-> "timeout", status |-> 0, content_type |-> "", body |-> ""]
TransportError == [result |-> "transport", status |-> 0, content_type |-> "", body |-> ""]
UpstreamStatuses == {200, 429, 500}
ContentTypes == {"text/event-stream", "application/json"}
\* bodies: a completion, {"error": {"message": ...}}, {"error": "..."},
\* some other JSON object, JSON that is an array and not an object, and text
\* that is not JSON
UpstreamBodyKinds ==
    {"completion", "error_message", "error_string", "other_json", "json_array", "not_json"}
UpstreamResponses ==
    [result : {"response"}, status : UpstreamStatuses, content_type : ContentTypes,
     body : UpstreamBodyKinds]
UpstreamOutcomes == {Timeout, TransportError} \cup UpstreamResponses

\* The registries the service answers chat completions with: one backend
\* per adapter, without and with an alias for a model no backend lists.
HttpBackends ==
    <<Descriptor("openai", {<<"g">>}, {<<"g">>}),
      Descriptor("claude", {<<"c">>}, {}),
      Descriptor("gemini", {<<"m">>}, {})>>
HttpRegistries ==
    {[backends |-> HttpBackends, model_aliases |-> a, providers |-> ""] :
        a \in {<<>>, [m \in {<<"x">>} |-> <<"c">>]}}
HttpModelIds == ModelIds \cup {<<"m">>, <<"x">>, <<"y">>}

\* The inbound request: whether its body is JSON, what body.get("messages")
\* is, body.get("model") and body.get("stream").
Inbounds ==
    [json_ok : BOOLEAN, messages : {"missing", "empty", "present"},
     model : HttpModelIds, stream : BOOLEAN]

NoException == [type |-> "", status_code |-> 0, detail |-> <<>>]
HTTPException(status, detail) == [type |-> "HTTPException", status_code |-> status, detail |-> detail]
JSONDecodeError == [type |-> "JSONDecodeError", status_code |-> 0, detail |-> <<"Expecting value">>]
\* what .get() on a list raises
AttributeError ==
    [type |-> "AttributeError", status_code |-> 0, detail |-> <<"'list' object has no attribute 'get'">>]

NoResponse == [status_code |-> 0, media_type |-> "", content |-> <<>>]
JSONResponse(status, content) ==
    [status_code |-> status, media_type |-> "application/json", content |-> content]
StreamingResponse ==
    [status_code |-> 200, media_type |-> "text/event-stream", content |-> <<"normalized stream">>]

\* get_error_detail(response)
get_error_detail(up) ==
    IF up.body = "not_json" THEN <<"Backend error", "status", "body text">>
    ELSE IF up.body = "error_message" THEN <<"upstream error message">>
    ELSE IF up.body = "error_string" THEN <<"upstream error string">>
    ELSE <<"Backend error", "status">>

Returned(r) == [response |-> r, exception |-> NoException]
Raised(e) == [response |-> NoResponse, exception |-> e]

\* the try around client.post in handle_request, with its two except
\* clauses: what it returns or what leaves it. A JSON array makes
\* format_openai_response and convert_claude_to_openai_response call .get
\* on a list; convert_gemini_to_openai_response reads it inside its try
\* blocks and answers with an empty completion.
PostAndConvert(adapter, stream, up) ==
    IF up.result = "timeout" THEN Raised(HTTPException(504, <<"Request timeout">>))
    ELSE IF up.result = "transport" THEN Raised(HTTPException(502, <<"request failed">>))
    ELSE IF stream
         THEN IF adapter # "openai" \/ up.content_type = "text/event-stream"
              THEN Returned(StreamingResponse)
              ELSE IF up.body = "not_json" THEN Raised(JSONDecodeError)
              ELSE IF up.body = "json_array" THEN Raised(AttributeError)
              ELSE Returned(JSONResponse(200, <<"chat.completion">>))
    ELSE IF up.status # 200 THEN Raised(HTTPException(up.status, get_error_detail(up)))
    ELSE IF up.body = "not_json" THEN Raised(JSONDecodeError)
    ELSE IF up.body = "json_array" /\ adapter # "gemini" THEN Raised(AttributeError)
    ELSE Returned(JSONResponse(200, <<"chat.completion">>))

\* if not body.get("messages"), with an empty list taken for messages
MessagesGivenIfListed(inbound) == inbound.messages # "missing"

\* if not body.get("messages")
MessagesGiven(inbound) == inbound.messages = "present"

InitHttp ==
    /\ BACKENDS_CONFIG \in HttpRegistries
    /\ call = NoCall
    /\ req = NoRequest
    /\ reloads = 0
    /\ NoStream
    /\ NoAux
    /\ \E b \in Inbounds :
        http = [pc |-> "parse", inbound |-> b, backend |-> "", posts |-> 0,
                upstream |-> Timeout, exception |-> NoException,
                caught |-> NoException, response |-> NoResponse]

Unwind(e) == [http EXCEPT !.exception = e, !.pc = "core_except"]

\* body = await request.json()
ParseBody ==
    /\ http.pc = "parse"
    /\ http' = IF http.inbound.json_ok THEN [http EXCEPT !.pc = "validate"]
               ELSE Unwind(JSONDecodeError)
    /\ UNCHANGED <<routerVars, streamVars, auxVars>>

\* if not body.get("messages"): raise HTTPException(400, ...)
ValidateMessages ==
    /\ http.pc = "validate"
    /\ http' = IF MessagesGiven(http.inbound) THEN [http EXCEPT !.pc = "route"]
               ELSE Unwind(HTTPException(400, <<"Missing required field: messages">>))
    /\ UNCHANGED <<routerVars, streamVars, auxVars>>

\* backend = choose_backend(model)
ChooseBackend ==
    /\ http.pc = "route"
    /\ LET r == get_backend_for_model(BACKENDS_CONFIG, http.inbound.model)
       IN http' = IF r.status = 200 THEN [http EXCEPT !.backend = r.backend, !.pc = "post"]
                  ELSE Unwind(HTTPException(r.status, r.detail))
    /\ UNCHANGED <<routerVars, streamVars, auxVars>>

\* a failed POST sent once more
AfterFailedPostRetry(backend) == "post"

\* where an exception of the POST or of the conversion goes: the except
\* clauses of the core re-raise, the adapters' outer except answers
AfterFailedPost(backend) ==
    IF backend = "openai" THEN "core_except" ELSE "adapter_except"

\* the adapter's client.post and what it makes of the outcome
AdapterPost ==
    /\ http.pc = "post"
    /\ \E up \in UpstreamOutcomes :
        LET r == PostAndConvert(http.backend, http.inbound.stream, up)
            sent == [http EXCEPT !.posts = @ + 1, !.upstream = up]
        IN http' = IF r.exception = NoException
                   THEN [sent EXCEPT !.response = r.response, !.pc = "sent"]
                   ELSE [sent EXCEPT !.exception = r.exception,
                                     !.pc = AfterFailedPost(http.backend)]
    /\ UNCHANGED <<routerVars, streamVars, auxVars>>

\* the outer "except Exception" of the Claude and Gemini handle_request
AdapterExcept ==
    /\ http.pc = "adapter_except"
    /\ http' = [http EXCEPT
                    !.response = JSONResponse(500, <<"model processing failed">> \o http.exception.detail),
                    !.exception = NoException,
                    !.caught = http.exception,
                    !.pc = "sent"]
    /\ UNCHANGED <<routerVars, streamVars, auxVars>>

\* the except clauses of proxy_chat_completions and the framework's answer
\* to the HTTPException that leaves it
CoreExcept ==
    /\ http.pc = "core_except"
    /\ LET e == http.exception
           out == IF e.type = "HTTPException" THEN e
                  ELSE IF e.type = "JSONDecodeError"
                  THEN HTTPException(400, <<"Invalid JSON in request body">>)
                  ELSE HTTPException(500, <<"Internal server error">>)
       IN http' = [http EXCEPT !.response = JSONResponse(out.status_code, out.detail),
                               !.exception = NoException, !.caught = e, !.pc = "sent"]
    /\ UNCHANGED <<routerVars, streamVars, auxVars>>

NextHttp ==
    \/ ParseBody
    \/ ValidateMessages
    \/ ChooseBackend
    \/ AdapterPost
    \/ AdapterExcept
    \/ CoreExcept

SpecHttp == InitHttp /\ [][NextHttp]_vars

\* ------------------------------------------------- repeated resolution
\* One entry of the call log.
Record(via, model, result) ==
    [via |-> via, model |-> model, result |-> result]

\* what get_backend_for_model leaves of the alias table when it forgets
\* an alias it has followed
RegistryAliasConsumed(cfg, model) ==
    [cfg EXCEPT !.model_aliases =
        [m \in DOMAIN cfg.model_aliases \ {model} |-> cfg.model_aliases[m]]]

\* what get_backend_for_model leaves of the registry: it only reads it
RegistryAfterResolve(cfg, model) == cfg

\* registries whose alias table has one entry or none
RepeatRegistries ==
    {[backends |-> b, model_aliases |-> a, providers |-> ""] :
        b \in BackendTables(MaxBackends),
        a \in {<<>>} \cup {[m \in {k} |-> t] : k \in ModelIds, t \in ModelIds}}

InitRepeat ==
    /\ BACKENDS_CONFIG \in RepeatRegistries
    /\ call = NoCall
    /\ req = NoRequest
    /\ reloads = 0
    /\ NoStream
    /\ http = NoHttp
    /\ NoAux

\* one more get_backend_for_model(model), with no reload since the last
ResolveAgain(m) ==
    /\ Len(calls) < MaxRequests
    /\ calls' = Append(calls, Record("get_backend_for_model", m,
                                     get_backend_for_model(BACKENDS_CONFIG, m)))
    /\ BACKENDS_CONFIG' = RegistryAfterResolve(BACKENDS_CONFIG, m)
    /\ UNCHANGED <<call, req, reloads, streamVars, http, environ, payload>>

NextRepeat == \E m \in ModelIds : ResolveAgain(m)

SpecRepeat == InitRepeat /\ [][NextRepeat]_vars

\* ------------------------------------------------------ credentials
\* The environment holds the variables the backends name; a variable that
\* is not set is not in its domain.
Credentials == {"k1", "k2"}
EnvNames == {"OPENAI_API_KEY", "CUSTOM_API_KEY"}
Environments == UNION {[D -> Credentials] : D \in SUBSET EnvNames}

\* os.getenv(name, default)
os_getenv(env, name, default) == IF name \in DOMAIN env THEN env[name] ELSE default

\* the environment as it was when the module was imported, kept
EnvironStale(e) == e.at_import

\* the environment os.getenv reads when it is called
EnvironNow(e) == e.now

\* the four legacy variables and the defaults they are read with
LegacyDefaults ==
    [OPENAI_API_KEY |-> "sk-xxxx", GROK_API_KEY |-> "gsk-xxxx",
     CLAUDE_API_KEY |-> "sk-ant-xxx", GEMINI_API_KEY |-> "AIza..."]

\* legacy_keys of ModelRouter.get_api_key_for_backend: read at the call
RouterLegacyKeys(e) ==
    [n \in DOMAIN LegacyDefaults |-> os_getenv(EnvironNow(e), n, LegacyDefaults[n])]

\* legacy_keys of llm_proxy.get_api_key_for_backend: the module constants
\* OPENAI_API_KEY ... GEMINI_API_KEY, read once at import
ProxyLegacyKeys(e) ==
    [n \in DOMAIN LegacyDefaults |-> os_getenv(e.at_import, n, LegacyDefaults[n])]

\* f"default-{backend_name}-key"
DefaultKey(backend_name) == "default-" \o backend_name \o "-key"

\* get_api_key_for_backend(backend_name, backend_config): the key, or the
\* HTTPException(500) for a backend without api_key_env
get_api_key_for_backend(e, backend, legacy_keys) ==
    LET api_key_env == backend.api_key_env
        api_key == os_getenv(EnvironNow(e), api_key_env, "")
    IN IF api_key_env = "" THEN [ok |-> FALSE, api_key |-> ""]
       ELSE IF api_key # "" THEN [ok |-> TRUE, api_key |-> api_key]
       ELSE IF api_key_env \in DOMAIN legacy_keys
       THEN [ok |-> TRUE, api_key |-> legacy_keys[api_key_env]]
       ELSE [ok |-> TRUE, api_key |-> DefaultKey(backend.name)]

\* A header value: whether it is a str, and its text as tokens. The tokens
\* str.format knows are the placeholder and the two escaped braces.
Placeholder == "{api_key}"
Str(tokens) == [is_str |-> TRUE, tokens |-> tokens]
NonStr(tokens) == [is_str |-> FALSE, tokens |-> tokens]
HasPlaceholder(value) == \E i \in 1..Len(value.tokens) : value.tokens[i] = Placeholder

\* value.format(api_key=api_key) that fills in the first field only
FormatFirst(tokens, api_key) ==
    LET at == {i \in 1..Len(tokens) : tokens[i] = Placeholder}
    IN [i \in 1..Len(tokens) |->
            IF i \in at /\ (\A j \in at : i <= j) THEN api_key ELSE tokens[i]]

\* value.format(api_key=api_key)
Format(tokens, api_key) ==
    [i \in 1..Len(tokens) |->
        IF tokens[i] = Placeholder THEN api_key
        ELSE IF tokens[i] = "{{" THEN "{"
        ELSE IF tokens[i] = "}}" THEN "}"
        ELSE tokens[i]]

\* backend_config.get("headers_template", {"Authorization": "Bearer {api_key}"})
DefaultTemplate == [Authorization |-> Str(<<"Bearer ", Placeholder>>)]
NoTemplate == [given |-> FALSE, headers |-> DefaultTemplate]
Template(headers) == [given |-> TRUE, headers |-> headers]
HeaderTemplates ==
    {NoTemplate,
     Template(DefaultTemplate),
     Template(("x-api-key" :> Str(<<Placeholder>>)) @@
              ("anthropic-version" :> Str(<<"2023-06-01">>))),
     Template(("Authorization" :> Str(<<"Bearer ", Placeholder>>)) @@
              ("X-Retries" :> NonStr(<<"3">>))),
     Template(("X-Keys" :> Str(<<Placeholder, ":", Placeholder>>)) @@
              ("X-Braces" :> Str(<<"{{", "}}">>)))}

\* the loop over headers_template.items()
ExpandHeaders(template, api_key) ==
    [n \in DOMAIN template |->
        IF template[n].is_str /\ HasPlaceholder(template[n])
        THEN Str(Format(template[n].tokens, api_key))
        ELSE template[n]]

\* One OpenAI-compatible backend, with every way of naming its credential:
\* no api_key_env, a legacy variable, a variable of its own.
CredentialBackend(api_key_env, template) ==
    [name |-> "openai", models |-> {<<"g">>}, model_prefixes |-> {},
     api_key_env |-> api_key_env, headers_template |-> template]
CredentialRegistries ==
    {[backends |-> <<CredentialBackend(n, t)>>, model_aliases |-> <<>>, providers |-> ""] :
        n \in EnvNames \cup {""}, t \in HeaderTemplates}

Chose(backend, api_key, headers) ==
    [status |-> 200, backend_name |-> backend, api_key |-> api_key,
     headers |-> headers, detail |-> <<>>]
ChooseFailed(status, detail) ==
    [status |-> status, backend_name |-> "", api_key |-> "",
     headers |-> <<>>, detail |-> detail]

TemplateOf(backend) ==
    IF backend.headers_template.given THEN backend.headers_template.headers
    ELSE DefaultTemplate

\* choose_backend(model)
choose_backend(cfg, e, model, legacy_keys) ==
    LET r == get_backend_for_model(cfg, model)
    IN IF r.status # 200 THEN ChooseFailed(r.status, r.detail)
       ELSE LET backend == Lookup(cfg.backends, r.backend)
                key == get_api_key_for_backend(e, backend, legacy_keys)
            IN IF ~key.ok
               THEN ChooseFailed(500, <<"No API key environment variable configured">>)
               ELSE Chose(r.backend, key.api_key,
                          ExpandHeaders(TemplateOf(backend), key.api_key))

CredentialModels == {<<"g">>, <<"y">>}

InitCredentials ==
    /\ BACKENDS_CONFIG \in CredentialRegistries
    /\ call = NoCall
    /\ req = NoRequest
    /\ reloads = 0
    /\ NoStream
    /\ http = NoHttp
    /\ \E env \in Environments : environ = [at_import |-> env, now |-> env]
    /\ calls = <<>>
    /\ payload = [data |-> <<>>, by |-> "", out |-> <<>>]

\* ModelRouter.choose_backend(model)
RouterChoose(m) ==
    /\ Len(calls) < MaxRequests
    /\ calls' = Append(calls, Record("model_router", m,
                    choose_backend(BACKENDS_CONFIG, environ, m, RouterLegacyKeys(environ))))
    /\ UNCHANGED <<routerVars, streamVars, http, environ, payload>>

\* llm_proxy.choose_backend(model)
ProxyChoose(m) ==
    /\ Len(calls) < MaxRequests
    /\ calls' = Append(calls, Record("llm_proxy", m,
                    choose_backend(BACKENDS_CONFIG, environ, m, ProxyLegacyKeys(environ))))
    /\ UNCHANGED <<routerVars, streamVars, http, environ, payload>>

\* os.environ[name] = value, between two requests
Setenv(name, value) ==
    /\ os_getenv(environ.now, name, "") # value
    /\ environ' = [environ EXCEPT !.now =
                        [n \in DOMAIN environ.now \cup {name} |->
                            IF n = name THEN value ELSE environ.now[n]]]
    /\ UNCHANGED <<routerVars, streamVars, http, calls, payload>>

\* del os.environ[name]
Unsetenv(name) ==
    /\ name \in DOMAIN environ.now
    /\ environ' = [environ EXCEPT !.now =
                        [n \in DOMAIN environ.now \ {name} |-> environ.now[n]]]
    /\ UNCHANGED <<routerVars, streamVars, http, calls, payload>>

NextCredentials ==
    \/ \E m \in CredentialModels : RouterChoose(m)
    \/ \E m \in CredentialModels : ProxyChoose(m)
    \/ \E n \in EnvNames, v \in Credentials : Setenv(n, v)
    \/ \E n \in EnvNames : Unsetenv(n)

SpecCredentials == InitCredentials /\ [][NextCredentials]_vars

\* ------------------------------------------------- response formatting
\* An upstream JSON object is a dict: a function from the keys it has to
\* their values. Only the value of "id" is told apart: the empty string or
\* an id the upstream chose.
PayloadKeys == {"id", "object", "created", "model", "choices", "message", "content"}
UpstreamIds == {"", "up-1"}
UpstreamObjects ==
    UNION {{[k \in D |-> IF k = "id" THEN i ELSE "upstream"] : i \in UpstreamIds} :
            D \in SUBSET PayloadKeys}

\* f"chatcmpl-{uuid.uuid4().hex[:29]}"
SynthesizedId == "chatcmpl-uuid"

\* dict.get(key, default)
Get(d, key, default) == IF key \in DOMAIN d THEN d[key] ELSE default

\* format_openai_response without the test for the five keys
FormatRewrapped(response_data, model) ==
    [id |-> Get(response_data, "id", SynthesizedId),
     object |-> "chat.completion",
     created |-> Get(response_data, "created", "now"),
     model |-> model,
     choices |-> Get(response_data, "choices", "none"),
     usage |-> Get(response_data, "usage", "zero"),
     system_fingerprint |-> "proxy"]

\* BaseProvider.format_openai_response(response_data, model)
format_openai_response(response_data, model) ==
    IF {"id", "object", "created", "model", "choices"} \subseteq DOMAIN response_data
    THEN response_data
    ELSE [id |-> Get(response_data, "id", SynthesizedId),
          object |-> "chat.completion",
          created |-> Get(response_data, "created", "now"),
          model |-> model,
          choices |-> IF "choices" \in DOMAIN response_data THEN response_data["choices"]
                      ELSE IF "message" \in DOMAIN response_data THEN "message"
                      ELSE IF "content" \in DOMAIN response_data THEN "content"
                      ELSE "none",
          usage |-> Get(response_data, "usage", "zero"),
          system_fingerprint |-> "proxy"]

\* the payload BaseProvider.stream_response emits for a data line that
\* parsed to chunk_dict
StreamPayload(chunk_dict) ==
    IF "choices" \in DOMAIN chunk_dict THEN chunk_dict
    ELSE [id |-> Get(chunk_dict, "id", SynthesizedId),
          object |-> "chat.completion.chunk",
          created |-> Get(chunk_dict, "created", "now"),
          model |-> Get(chunk_dict, "model", "unknown"),
          choices |-> "delta"]

InitFormat ==
    /\ BACKENDS_CONFIG = <<>>
    /\ call = NoCall
    /\ req = NoRequest
    /\ reloads = 0
    /\ NoStream
    /\ http = NoHttp
    /\ environ = [at_import |-> <<>>, now |-> <<>>]
    /\ calls = <<>>
    /\ \E d \in UpstreamObjects : payload = [data |-> d, by |-> "", out |-> <<>>]

\* the non-streaming path of the OpenAI-compatible adapter
FormatResponse ==
    /\ payload.by = ""
    /\ payload' = [payload EXCEPT !.by = "format_openai_response",
                                  !.out = format_openai_response(payload.data, "g")]
    /\ UNCHANGED <<routerVars, streamVars, http, environ, calls>>

\* one data line of the streaming path
NormalizeChunk ==
    /\ payload.by = ""
    /\ payload' = [payload EXCEPT !.by = "stream_response",
                                  !.out = StreamPayload(payload.data)]
    /\ UNCHANGED <<routerVars, streamVars, http, environ, calls>>

NextFormat == FormatResponse \/ NormalizeChunk

SpecFormat == InitFormat /\ [][NextFormat]_vars

\* ------------------------------------------------------- GET /v1/models
ModelEntry(id, backend, alias_for) ==
    [id |-> id, object |-> "model", backend |-> backend, alias_for |-> alias_for]

\* the first loop of list_models: the models of every backend
ModelEntries(cfg) ==
    UNION {{ModelEntry(m, cfg.backends[k].name, <<>>) : m \in cfg.backends[k].models} :
            k \in 1..Len(cfg.backends)}

\* the second loop with every alias listed, resolved or not
AliasEntriesUnchecked(cfg) ==
    {ModelEntry(a, get_backend_for_model(cfg, cfg.model_aliases[a]).backend,
                cfg.model_aliases[a]) : a \in DOMAIN cfg.model_aliases}

\* the second loop of list_models: the aliases, each with the backend
\* get_backend_for_model gives for its target; "except Exception: continue"
\* leaves out an alias whose target it refuses
AliasEntries(cfg) ==
    {ModelEntry(a, get_backend_for_model(cfg, cfg.model_aliases[a]).backend,
                cfg.model_aliases[a]) :
        a \in {x \in DOMAIN cfg.model_aliases :
                    get_backend_for_model(cfg, cfg.model_aliases[x]).status = 200}}

\* list_models()
list_models(cfg) ==
    [object |-> "list", data |-> ModelEntries(cfg) \cup AliasEntries(cfg)]

InitModels ==
    /\ BACKENDS_CONFIG \in Registries(MaxBackends, MaxAliases)
    /\ call = NoCall
    /\ req = NoRequest
    /\ reloads = 0
    /\ NoStream
    /\ http = NoHttp
    /\ NoAux

\* GET /v1/models, answered from the registry
ListModels ==
    /\ calls = <<>>
    /\ calls' = <<Record("list_models", <<>>, list_models(BACKENDS_CONFIG))>>
    /\ UNCHANGED <<routerVars, streamVars, http, environ, payload>>

NextModels == ListModels

SpecModels == InitModels /\ [][NextModels]_vars


\* ------------------------------------------- Gemini non-streaming answers
\* A Gemini answer as convert_gemini_to_openai_response reads it: whether
\* "candidates" is absent, an empty list or a list; whether candidates[0]
\* has content with parts; the parts, each with or without a "text" key;
\* candidates[0].finishReason ("" when absent) and usageMetadata.
GeminiPart(has_text, text) == [has_text |-> has_text, text |-> text]
GeminiParts == {GeminiPart(TRUE, <<"a">>), GeminiPart(TRUE, <<"b">>),
                GeminiPart(TRUE, <<>>), GeminiPart(FALSE, <<>>)}
GeminiFinishValues == {"", "STOP", "MAX_TOKENS", "SAFETY", "RECITATION", "OTHER", "BLOCKLIST"}
GeminiResponses(n) ==
    [candidates : {"list"}, content : BOOLEAN, parts : SeqsUpTo(GeminiParts, n),
     finishReason : GeminiFinishValues, usageMetadata : {"absent", "partial", "full"}]
    \cup
    [candidates : {"absent", "empty"}, content : {FALSE}, parts : {<<>>},
     finishReason : {""}, usageMetadata : {"absent", "partial", "full"}]

\* the loop over the parts that keeps the last text only
AnswerLastPart(parts) ==
    LET texts == SelectSeq(parts, LAMBDA p : p.has_text /\ p.text # <<>>)
    IN IF texts = <<>> THEN <<>> ELSE texts[Len(texts)].text

\* for part in candidate["content"]["parts"]: if part.get("text"): answer += part["text"]
RECURSIVE Answer(_)
Answer(parts) ==
    IF parts = <<>> THEN <<>>
    ELSE (IF Head(parts).has_text /\ Head(parts).text # <<>> THEN Head(parts).text ELSE <<>>)
         \o Answer(Tail(parts))

\* finish_reason_map.get(gemini_finish, "stop")
finish_reason_map ==
    ("STOP" :> "stop") @@ ("MAX_TOKENS" :> "length") @@ ("SAFETY" :> "content_filter") @@
    ("RECITATION" :> "content_filter") @@ ("OTHER" :> "stop")
MapFinish(gemini_finish) ==
    IF gemini_finish \in DOMAIN finish_reason_map THEN finish_reason_map[gemini_finish]
    ELSE "stop"

\* usage_info: the three counts, each usage_metadata.get(..., 0)
UsageInfo(usageMetadata) ==
    IF usageMetadata = "full"
    THEN [prompt_tokens |-> 3, completion_tokens |-> 5, total_tokens |-> 8]
    ELSE IF usageMetadata = "partial"
    THEN [prompt_tokens |-> 3, completion_tokens |-> 0, total_tokens |-> 0]
    ELSE [prompt_tokens |-> 0, completion_tokens |-> 0, total_tokens |-> 0]

\* GeminiProvider.convert_gemini_to_openai_response(resp_json, model, id)
convert_gemini_to_openai_response(resp_json, model) ==
    [id |-> SynthesizedId,
     object |-> "chat.completion",
     model |-> model,
     content |-> IF resp_json.candidates = "list" /\ resp_json.content
                 THEN Answer(resp_json.parts) ELSE <<>>,
     finish_reason |-> IF resp_json.candidates = "list" /\ resp_json.finishReason # ""
                       THEN MapFinish(resp_json.finishReason) ELSE "stop",
     usage |-> UsageInfo(resp_json.usageMetadata)]

InitGemini ==
    /\ BACKENDS_CONFIG = <<>>
    /\ call = NoCall
    /\ req = NoRequest
    /\ reloads = 0
    /\ NoStream
    /\ http = NoHttp
    /\ environ = [at_import |-> <<>>, now |-> <<>>]
    /\ calls = <<>>
    /\ \E d \in GeminiResponses(MaxParts) : payload = [data |-> d, by |-> "", out |-> <<>>]

\* the non-streaming path of the Gemini adapter, after response.json()
ConvertGemini ==
    /\ payload.by = ""
    /\ payload' = [payload EXCEPT !.by = "convert_gemini_to_openai_response",
                                  !.out = convert_gemini_to_openai_response(payload.data, "m")]
    /\ UNCHANGED <<routerVars, streamVars, http, environ, calls>>

NextGemini == ConvertGemini

SpecGemini == InitGemini /\ [][NextGemini]_vars


\* --------------------------------- Gemini streams that go on after the "]"
\* The upstream is free to send more after the array is closed: nothing, or
\* a separator and one more object.
GeminiTails ==
    {<<>>} \cup {<<",", " ">> \o o : o \in {GeminiObject(<<<<"b">>>>, <<>>),
                                            GeminiObject(<<<<"a", "b">>>>, <<"S">>)}}

GeminiTailBodies ==
    {GeminiBody(objs) \o t : objs \in SeqsUpTo(GeminiObjects, 1), t \in GeminiTails}

InitGeminiTail ==
    /\ BACKENDS_CONFIG = <<>>
    /\ call = NoCall
    /\ req = NoRequest
    /\ reloads = 0
    /\ kind = "gemini"
    /\ upstream \in GeminiTailBodies
    /\ pending = upstream
    /\ chunks = 0
    /\ st = StreamStart
    /\ http = NoHttp
    /\ NoAux

NextGeminiTail ==
    \/ GeminiChunk
    \/ GeminiScan
    \/ GeminiEndOfChunk
    \/ StreamEnd
    \/ UpstreamRaises

SpecGeminiTail == InitGeminiTail /\ [][NextGeminiTail]_vars


\* ------------------------------------------------- reloads that fail
\* The configuration file at the time of a reload: it holds a table, no
\* configuration file exists, it cannot be opened or parsed, or a provider
\* entry lacks a key the conversion indexes.
NoTable == [backends |-> <<>>, model_aliases |-> <<>>, providers |-> ""]
ConfigFiles ==
    {[state |-> "table", table |-> t] : t \in ReloadTables}
        \cup {[state |-> s, table |-> NoTable] : s \in {"missing", "unparsable", "unconvertible"}}

\* the hard-coded table after its conversion: openai with its models and the
\* prefix "gpt-", and grok, whose models are outside the identifiers here
FallbackTable ==
    [backends |-> <<Descriptor("openai", {<<"g">>, <<"g", "p">>}, {<<"g">>}),
                    Descriptor("grok", {}, {})>>,
     model_aliases |-> <<>>, providers |-> ""]

LoadReturned(t) == [raised |-> FALSE, config |-> t]
LoadRaised == [raised |-> TRUE, config |-> NoTable]

\* llm_proxy.load_backends(): json.load and the conversion are not guarded
load_backends(file) ==
    IF file.state = "table" THEN LoadReturned(file.table)
    ELSE IF file.state = "missing" THEN LoadReturned(FallbackTable)
    ELSE LoadRaised

\* reload_backends(): BACKENDS_CONFIG = load_backends() inside try/except
reload_backends(cfg, file) ==
    IF load_backends(file).raised THEN cfg ELSE load_backends(file).config

\* BackendConfig.load_backends() with _config None: a file that cannot be
\* read or parsed is answered by the fallback table, the conversion is not
\* guarded
BackendConfig_load_backends(file) ==
    IF file.state = "table" THEN LoadReturned(file.table)
    ELSE IF file.state \in {"missing", "unparsable"} THEN LoadReturned(FallbackTable)
    ELSE LoadRaised

\* BackendConfig.reload(): self._config = None, then load_backends(); when
\* that raises _config stays None
BackendConfig_reload(cfg, file) ==
    IF BackendConfig_load_backends(file).raised THEN NoTable
    ELSE BackendConfig_load_backends(file).config

ReloadRecord(via, file, before, after) ==
    [via |-> via, file |-> file, before |-> before, after |-> after]

InitReloadFail ==
    /\ BACKENDS_CONFIG \in ReloadTables
    /\ call = NoCall
    /\ req = NoRequest
    /\ reloads = 0
    /\ NoStream
    /\ http = NoHttp
    /\ NoAux

\* POST /admin/reload-backends
ProxyReload(file) ==
    /\ Len(calls) < MaxReloads
    /\ BACKENDS_CONFIG' = reload_backends(BACKENDS_CONFIG, file)
    /\ calls' = Append(calls, ReloadRecord("reload_backends", file, BACKENDS_CONFIG,
                                           BACKENDS_CONFIG'))
    /\ UNCHANGED <<call, req, reloads, streamVars, http, environ, payload>>

\* backend_config.reload()
ConfigReload(file) ==
    /\ Len(calls) < MaxReloads
    /\ BACKENDS_CONFIG' = BackendConfig_reload(BACKENDS_CONFIG, file)
    /\ calls' = Append(calls, ReloadRecord("BackendConfig.reload", file, BACKENDS_CONFIG,
                                           BACKENDS_CONFIG'))
    /\ UNCHANGED <<call, req, reloads, streamVars, http, environ, payload>>

NextReloadFail ==
    \/ \E file \in ConfigFiles : ProxyReload(file)
    \/ \E file \in ConfigFiles : ConfigReload(file)

SpecReloadFail == InitReloadFail /\ [][NextReloadFail]_vars


\* ------------------------------------------------- two streams at once
\* Two streaming requests are served by one event loop.  Here kind,
\* upstream, pending and st are pairs, one entry per request, and chunks
\* holds for each request the chunks its upstream has delivered so far.
Streams == {1, 2}
ConcurrentKinds == {"claude", "gemini"}
ConcurrentBodies(k) ==
    IF k = "gemini"
    THEN {GeminiBody(<<GeminiObject(<<<<"a">>>>, <<>>), GeminiObject(<<<<"a", "b">>>>, <<>>)>>),
          GeminiBody(<<GeminiObject(<<<<"b">>>>, <<"S">>)>>),
          GeminiBody(<<GeminiObject(<<<<"a">>>>, <<>>), GeminiObject(<<<<"b">>>>, <<"S">>)>>)}
    ELSE {<<DeltaLine(<<"a">>), DeltaLine(<<"b">>), StopLine>>,
          <<DeltaLine(<<"b">>), DoneLine>>,
          <<DeltaLine(<<"a">>), PingLine>>}

\* one generator shared by all requests
StreamLocalsShared(all, k) == all[1]

\* the locals of the generator serving request k: each call of the
\* generator function has its own
StreamLocals(all, k) == all[k]

\* one chunk through the body of "async for chunk in response.aiter_text()"
ChunkStep(k, s, chunk) ==
    IF k = "gemini"
    THEN LET fetched == GeminiFetch(s, chunk)
             scanned == GeminiScanAll(fetched)
         IN IF scanned.pc = "scanning" THEN GeminiTrim(scanned) ELSE scanned
    ELSE RunLines(k, s, chunk)

\* the statement after the loop over the chunks
EndStep(k, s) ==
    IF k = "gemini" THEN GeminiFinish(s)
    ELSE [s EXCEPT !.out = Append(@, DoneEvent), !.pc = "closed"]

\* a chunk is cut after two characters of a Gemini body or one line of an
\* event stream, or is all the rest
ChunkLengths(k, rest) ==
    IF k = "gemini" THEN {IF Len(rest) < 2 THEN Len(rest) ELSE 2, Len(rest)}
    ELSE {1, Len(rest)}

InitConcurrent ==
    /\ BACKENDS_CONFIG = <<>>
    /\ call = NoCall
    /\ req = NoRequest
    /\ reloads = 0
    /\ kind \in [Streams -> ConcurrentKinds]
    /\ upstream \in [Streams -> UNION {ConcurrentBodies(k) : k \in ConcurrentKinds}]
    /\ \A r \in Streams : upstream[r] \in ConcurrentBodies(kind[r])
    /\ pending = upstream
    /\ chunks = [r \in Streams |-> <<>>]
    /\ st = [r \in Streams |-> StreamStart]
    /\ http = NoHttp
    /\ NoAux

\* the upstream of request r delivers its next chunk and the generator of
\* that request handles it
Deliver(r) ==
    /\ st[r].pc = "reading"
    /\ pending[r] # <<>>
    /\ \E n \in IF Len(chunks[r]) + 1 >= MaxChunks THEN {Len(pending[r])}
                ELSE ChunkLengths(kind[r], pending[r]) :
        LET chunk == SubSeq(pending[r], 1, n)
        IN /\ st' = [st EXCEPT ![r] = ChunkStep(kind[r], StreamLocals(st, r), chunk)]
           /\ pending' = [pending EXCEPT ![r] = DropFirst(pending[r], n)]
           /\ chunks' = [chunks EXCEPT ![r] = Append(@, chunk)]
    /\ UNCHANGED <<routerVars, http, auxVars, kind, upstream>>

\* the upstream of request r is exhausted
EndOfStream(r) ==
    /\ st[r].pc = "reading"
    /\ pending[r] = <<>>
    /\ st' = [st EXCEPT ![r] = EndStep(kind[r], StreamLocals(st, r))]
    /\ UNCHANGED <<routerVars, http, auxVars, kind, upstream, pending, chunks>>

NextConcurrent ==
    \/ \E r \in Streams : Deliver(r)
    \/ \E r \in Streams : EndOfStream(r)

SpecConcurrent == InitConcurrent /\ [][NextConcurrent]_vars


\* ------------------------------------------ what a request carries forward
\* The configuration file in the providers format: the base_url of its
\* gemini provider and its alias table.
ConfiguredUrls == {DefaultGeminiUrl, "https://gemini.example/v1beta"}
ForwardAliasTables ==
    UNION {[D -> {<<"g">>, <<"c">>, <<"m">>}] : D \in SUBSET {<<"x">>, <<"y">>}}
ProviderFiles ==
    [gemini_base_url : ConfiguredUrls, model_aliases : ForwardAliasTables]

\* load_backends on a file with a "providers" key: the legacy table has the
\* keys backends, model_aliases and default_models; each backend's base_url
\* is the provider's base_url followed by the chat endpoint, and the
\* "providers" key is not carried over
ConvertProviders(file) ==
    [backends |-> HttpBackends,
     model_aliases |-> file.model_aliases,
     providers |-> "",
     gemini_backend_url |-> <<file.gemini_base_url, "/chat/completions">>]

\* the alias target sent upstream in place of the requested id
ForwardedModelResolved(cfg, model) == AliasHop(cfg.model_aliases, model)

\* the model the adapters put into the upstream request: body["model"] in
\* the forwarded body, in the Claude payload and in the Gemini URL
ForwardedModel(cfg, model) == model

\* f"{gemini_base_url}/models/{model_name}:generateContent", or
\* :streamGenerateContent when streaming
GeminiUrl(cfg, model_name, stream) ==
    [base |-> GeminiBaseUrl(cfg), model |-> model_name,
     endpoint |-> IF stream THEN ":streamGenerateContent" ELSE ":generateContent"]

\* what the upstream answers with: the model it names is the id it was
\* asked for or its own name for it
UpstreamName == <<"u", "p">>
ForwardPayloads(sent) ==
    UNION {{[k \in D |-> IF k = "model" THEN v ELSE "upstream"] : v \in {sent, UpstreamName}} :
            D \in {{"id", "object", "created", "model", "choices"},
                   {"id", "model", "message"}, {"choices"}, {"content"}}}

\* the "model" of the non-streaming answer: format_openai_response for the
\* OpenAI-compatible adapter, "model": model in the two conversions
AnswerModel(adapter, response_data, model) ==
    IF adapter = "openai" THEN format_openai_response(response_data, model)["model"]
    ELSE model

InitForward ==
    /\ \E file \in ProviderFiles : BACKENDS_CONFIG = ConvertProviders(file)
    /\ call = NoCall
    /\ req = NoRequest
    /\ reloads = 0
    /\ NoStream
    /\ http = NoHttp
    /\ NoAux

\* one chat completion with messages, from the choice of the backend to the
\* answer: what was sent upstream and what came back
Forward(model, stream) ==
    /\ calls = <<>>
    /\ LET r == get_backend_for_model(BACKENDS_CONFIG, model)
           sent == ForwardedModel(BACKENDS_CONFIG, model)
       IN IF r.status # 200
          THEN calls' = <<Record("proxy_chat_completions", model,
                                 [status |-> r.status, backend |-> "", stream |-> stream])>>
          ELSE \E d \in ForwardPayloads(sent) :
                calls' = <<Record("proxy_chat_completions", model,
                    [status |-> 200, backend |-> r.backend, stream |-> stream,
                     sent_model |-> sent,
                     url |-> IF r.backend = "gemini"
                             THEN GeminiUrl(BACKENDS_CONFIG, sent, stream)
                             ELSE [base |-> "static", model |-> <<>>, endpoint |-> ""],
                     upstream |-> d,
                     answer_model |-> AnswerModel(r.backend, d, model)])>>
    /\ UNCHANGED <<routerVars, streamVars, http, environ, payload>>

NextForward == \E model \in HttpModelIds, stream \in BOOLEAN : Forward(model, stream)

SpecForward == InitForward /\ [][NextForward]_vars


\* ------------------------------------------------ translating the request
MaxMessages == 2   \* messages of an inbound request

\* A message of the inbound body: its role and content, either of which a
\* client may leave out; "" is the empty content.
InboundMessages ==
    [{"role", "content"} -> {"system", "user", "assistant", "tool", "", "hi", "yo"}]
InboundMessage(m) ==
    /\ m["role"] \in {"system", "user", "assistant", "tool"}
    /\ m["content"] \in {"", "hi", "yo"}
Messages ==
    {m \in InboundMessages : InboundMessage(m)}
        \cup {[k \in {"content"} |-> c] : c \in {"hi", "yo"}}
        \cup {[k \in {"role"} |-> r] : r \in {"user", "system"}}

\* The inbound body: messages, and temperature and max_tokens where given.
Bodies(n) ==
    UNION {{[k \in D \cup {"messages"} |->
                IF k = "messages" THEN ms ELSE IF k = "temperature" THEN "0.7" ELSE "256"] :
             ms \in SeqsUpTo(Messages, n)} : D \in SUBSET {"temperature", "max_tokens"}}

\* what a conversion loop comes to: the list built, or an exception raised
Built(list) == [raised |-> FALSE, list |-> list]
LoopRaised == [raised |-> TRUE, list |-> <<>>]
Prepend(item, rest) == IF rest.raised THEN rest ELSE Built(<<item>> \o rest.list)

\* the Claude conversion with the role filter left out
RECURSIVE AnthropicMessagesAnyRole(_)
AnthropicMessagesAnyRole(messages) ==
    IF messages = <<>> THEN Built(<<>>)
    ELSE LET m == Head(messages)
             rest == AnthropicMessagesAnyRole(Tail(messages))
         IN IF Get(m, "content", "") = "" THEN rest
            ELSE IF "role" \notin DOMAIN m THEN LoopRaised
            ELSE Prepend([role |-> m["role"], content |-> m["content"]], rest)

\* ClaudeProvider.convert_openai_to_anthropic_messages(messages): the list
\* of converted messages, or KeyError raised at m["role"]
RECURSIVE convert_openai_to_anthropic_messages(_)
convert_openai_to_anthropic_messages(messages) ==
    IF messages = <<>> THEN Built(<<>>)
    ELSE LET m == Head(messages)
             rest == convert_openai_to_anthropic_messages(Tail(messages))
         IN IF Get(m, "content", "") = "" THEN rest
            ELSE IF "role" \notin DOMAIN m THEN LoopRaised
            ELSE IF m["role"] \notin {"user", "assistant"} THEN rest
            ELSE Prepend([role |-> m["role"], content |-> m["content"]], rest)

\* GeminiProvider.convert_openai_to_gemini_messages(messages): gemini_role
\* is computed and not put into the content
RECURSIVE convert_openai_to_gemini_messages(_)
convert_openai_to_gemini_messages(messages) ==
    IF messages = <<>> THEN Built(<<>>)
    ELSE LET m == Head(messages)
             rest == convert_openai_to_gemini_messages(Tail(messages))
         IN IF Get(m, "content", "") = "" THEN rest
            ELSE IF "role" \notin DOMAIN m THEN LoopRaised
            ELSE IF m["role"] = "system" THEN rest
            ELSE Prepend([parts |-> <<[text |-> m["content"]]>>], rest)

\* the payload ClaudeProvider.handle_request posts
ClaudePayload(body, stream) ==
    [k \in {"max_tokens", "messages"} \cup ({"temperature"} \cap DOMAIN body)
              \cup (IF stream THEN {"stream"} ELSE {}) |->
        CASE k = "max_tokens" -> Get(body, "max_tokens", "1024")
          [] k = "messages" -> convert_openai_to_anthropic_messages(body["messages"]).list
          [] k = "temperature" -> body["temperature"]
          [] k = "stream" -> TRUE]

\* the generationConfig of the Gemini payload
GenerationConfig(body) ==
    [k \in {g \in {"temperature", "maxOutputTokens"} :
               (IF g = "temperature" THEN "temperature" ELSE "max_tokens") \in DOMAIN body} |->
        IF k = "temperature" THEN body["temperature"] ELSE body["max_tokens"]]

\* the payload GeminiProvider.handle_request posts
GeminiPayload(body) ==
    [k \in {"contents"} \cup (IF {"temperature", "max_tokens"} \cap DOMAIN body = {}
                              THEN {} ELSE {"generationConfig"}) |->
        IF k = "contents" THEN convert_openai_to_gemini_messages(body["messages"]).list
        ELSE GenerationConfig(body)]

\* the except Exception of handle_request: nothing is posted
NotPosted == [status |-> 500, json |-> <<>>]
Posted(p) == [status |-> 200, json |-> p]

InitTranslate ==
    /\ BACKENDS_CONFIG = <<>>
    /\ call = NoCall
    /\ req = NoRequest
    /\ reloads = 0
    /\ NoStream
    /\ http = NoHttp
    /\ environ = [at_import |-> <<>>, now |-> <<>>]
    /\ calls = <<>>
    /\ \E b \in Bodies(MaxMessages) : payload = [data |-> b, by |-> "", out |-> <<>>]

\* ClaudeProvider.handle_request up to client.post
TranslateClaude(stream) ==
    /\ payload.by = ""
    /\ payload' = [payload EXCEPT !.by = <<"claude", stream>>,
            !.out = IF convert_openai_to_anthropic_messages(payload.data["messages"]).raised
                    THEN NotPosted ELSE Posted(ClaudePayload(payload.data, stream))]
    /\ UNCHANGED <<routerVars, streamVars, http, environ, calls>>

\* GeminiProvider.handle_request up to client.post
TranslateGemini(stream) ==
    /\ payload.by = ""
    /\ payload' = [payload EXCEPT !.by = <<"gemini", stream>>,
            !.out = IF convert_openai_to_gemini_messages(payload.data["messages"]).raised
                    THEN NotPosted ELSE Posted(GeminiPayload(payload.data))]
    /\ UNCHANGED <<routerVars, streamVars, http, environ, calls>>

NextTranslate ==
    \E stream \in BOOLEAN : TranslateClaude(stream) \/ TranslateGemini(stream)

SpecTranslate == InitTranslate /\ [][NextTranslate]_vars


\* ------------------------------------------------- the answer from Claude
MaxBlocks == 2     \* content blocks of a Claude answer

\* A content block: an object with or without "type" and "text", or a
\* value that is no object.
ContentBlocks ==
    {[k \in D |-> IF k = "type" THEN "text" ELSE t] :
        D \in {{"type", "text"}, {"type"}, {"text"}}, t \in {"a", "b"}}
      \cup {[k \in {"type"} |-> "tool_use"], [k \in {"scalar"} |-> "7"]}
IsObject(block) == "scalar" \notin DOMAIN block

\* resp_json: whether "content" is absent, a list or another value, the
\* list, whether "completion" is there, and "stop_reason" ("" when absent)
ClaudeResponses(n) ==
    {r \in [content_is : {"absent", "list", "other"},
            content : SeqsUpTo(ContentBlocks, n),
            completion : {"", "legacy"},
            stop_reason : {"", "end_turn", "max_tokens", "stop_sequence"}] :
        r.content_is # "list" => r.content = <<>>}

\* the loop over the content blocks: the texts of the "text" blocks, or
\* AttributeError raised at block.get on a block that is no object
RECURSIVE BlocksLoop(_)
BlocksLoop(blocks) ==
    IF blocks = <<>> THEN Built(<<>>)
    ELSE LET block == Head(blocks)
             rest == BlocksLoop(Tail(blocks))
         IN IF ~IsObject(block) THEN LoopRaised
            ELSE IF Get(block, "type", "") # "text" THEN rest
            ELSE IF "text" \in DOMAIN block THEN Prepend(block["text"], rest)
            ELSE rest

\* the answer text, as the sequence of the texts joined
ClaudeAnswer(resp_json) ==
    IF resp_json.content_is = "list" /\ resp_json.content # <<>>
    THEN LET got == BlocksLoop(resp_json.content)
         IN IF got.raised THEN <<>> ELSE got.list
    ELSE IF resp_json.completion # "" THEN <<resp_json.completion>>
    ELSE <<>>

\* the stop_reason handed on as it came
ClaudeFinishUnmapped(resp_json) ==
    IF resp_json.stop_reason = "" THEN "stop" ELSE resp_json.stop_reason

\* stop_reason = resp_json.get("stop_reason", "stop"); "stop" for end_turn
ClaudeFinish(resp_json) ==
    LET stop_reason == IF resp_json.stop_reason = "" THEN "stop" ELSE resp_json.stop_reason
    IN IF stop_reason = "end_turn" THEN "stop" ELSE stop_reason

\* ClaudeProvider.convert_claude_to_openai_response(resp_json, model, id)
convert_claude_to_openai_response(resp_json, model) ==
    [id |-> SynthesizedId,
     object |-> "chat.completion",
     model |-> model,
     choices |-> <<[index |-> 0,
                    message |-> [role |-> "assistant", content |-> ClaudeAnswer(resp_json)],
                    finish_reason |-> ClaudeFinish(resp_json)]>>]

InitClaudeAnswer ==
    /\ BACKENDS_CONFIG = <<>>
    /\ call = NoCall
    /\ req = NoRequest
    /\ reloads = 0
    /\ NoStream
    /\ http = NoHttp
    /\ environ = [at_import |-> <<>>, now |-> <<>>]
    /\ calls = <<>>
    /\ \E d \in ClaudeResponses(MaxBlocks) : payload = [data |-> d, by |-> "", out |-> <<>>]

\* the non-streaming path of the Claude adapter, after response.json()
ConvertClaude ==
    /\ payload.by = ""
    /\ payload' = [payload EXCEPT !.by = "convert_claude_to_openai_response",
                                  !.out = convert_claude_to_openai_response(payload.data, "c")]
    /\ UNCHANGED <<routerVars, streamVars, http, environ, calls>>

NextClaudeAnswer == ConvertClaude

SpecClaudeAnswer == InitClaudeAnswer /\ [][NextClaudeAnswer]_vars

\* ----------------------------------------------- error classification
Answered == http.pc = "sent" /\ http.posts > 0

\* C9: for every adapter, a timed-out upstream request is answered with
\* 504 and a failed transport with 502.
C9_TimeoutAndTransport ==
    Answered =>
        /\ http.upstream = Timeout => http.response.status_code = 504
        /\ http.upstream = TransportError => http.response.status_code = 502

\* C10: for every adapter, streaming or not, an upstream response whose
\* status is not 2xx and whose body is a parseable error is answered with
\* the upstream's status and the message extracted from the body.
C10_StatusAndMessagePassthrough ==
    (/\ Answered
     /\ http.upstream.result = "response"
     /\ http.upstream.status \notin 200..299
     /\ http.upstream.body \in {"error_message", "error_string"}) =>
        /\ http.response.status_code = http.upstream.status
        /\ http.response.content = get_error_detail(http.upstream)

\* ----------------------------------------------------- resolver claims
Aliases == BACKENDS_CONFIG.model_aliases
Backends == BACKENDS_CONFIG.backends
Called == call # NoCall
HasModel(k, m) == m \in Backends[k].models
HasPrefix(k, m) == \E p \in Backends[k].model_prefixes : StartsWith(m, p)
Indexes == 1..Len(Backends)
\* the model id the two loops run on: the request's id after one alias hop
Hopped == IF call.model \in DOMAIN Aliases THEN Aliases[call.model] ELSE call.model

C4_SingleHop ==
    (Called /\ call.model \in DOMAIN Aliases) =>
        LET t == Aliases[call.model]
        IN /\ call.result.status = 200 =>
                \E k \in Indexes : /\ Backends[k].name = call.result.backend
                                    /\ (HasModel(k, t) \/ HasPrefix(k, t))
           /\ call.result.status # 200 =>
                /\ call.result = UnknownModel(t)
                /\ \A k \in Indexes : ~HasModel(k, t) /\ ~HasPrefix(k, t)

\* a chain A -> B -> C whose second hop would have changed the answer
C4_Witness ==
    /\ Called
    /\ call.model \in DOMAIN Aliases
    /\ Aliases[call.model] \in DOMAIN Aliases
    /\ MatchBackend(Backends, Aliases[Aliases[call.model]]) # call.result
    /\ call.result.status = 200

C11_MessagesCheckedFirst ==
    (/\ http.pc = "sent"
     /\ http.inbound.json_ok
     /\ http.inbound.messages # "present") =>
        /\ http.response = JSONResponse(400, <<"Missing required field: messages">>)
        /\ http.posts = 0

\* an empty message list with a model no backend serves has been answered
C11_Witness ==
    /\ http.pc = "sent"
    /\ http.inbound.json_ok
    /\ http.inbound.messages = "empty"
    /\ get_backend_for_model(BACKENDS_CONFIG, http.inbound.model).status = 400
    /\ http.response.status_code = 400

\* the model of the request is not an alias, is listed by no backend and
\* starts with no backend's prefix
Unroutable(cfg, m) ==
    /\ m \notin DOMAIN cfg.model_aliases
    /\ \A k \in 1..Len(cfg.backends) :
        /\ m \notin cfg.backends[k].models
        /\ \A p \in cfg.backends[k].model_prefixes : ~StartsWith(m, p)

\* C12: a request with messages for a model that is no alias, is listed by
\* no backend and matches no prefix is answered with 400 and a detail
\* that holds "Unknown model", and nothing has been posted upstream.
C12_UnknownModelRejected ==
    (/\ http.pc = "sent"
     /\ http.inbound.json_ok
     /\ http.inbound.messages = "present"
     /\ Unroutable(BACKENDS_CONFIG, http.inbound.model)) =>
        /\ http.response.status_code = 400
        /\ http.response.content[1] = "Unknown model"
        /\ http.posts = 0

C12_Witness ==
    /\ http.pc = "sent"
    /\ http.inbound.json_ok
    /\ http.inbound.messages = "present"
    /\ Unroutable(BACKENDS_CONFIG, http.inbound.model)
    /\ http.response = JSONResponse(400, <<"Unknown model", http.inbound.model>>)

\* C13: an exception that is neither an HTTPException nor the decode
\* error of a body is answered with 500 and the generic message, without
\* the exception's text, whichever adapter it was raised in.
C13_GenericInternalError ==
    (http.pc = "sent" /\ http.caught.type = "AttributeError") =>
        http.response = JSONResponse(500, <<"Internal server error">>)

\* ------------------------------------------------ malformed fragments
\* a data line whose payload json.loads refuses, or parses to something
\* that is not an object
Malformed(line) == line.data /\ line.json \in {"invalid", "scalar"}
WellFormedOnly(lines) == SelectSeq(lines, LAMBDA l : ~Malformed(l))

\* an event stream that arrives whole, in one chunk, run to the end
SSEOneChunk(k, lines) ==
    LET s == RunLines(k, StreamStart, lines)
    IN IF s.pc = "reading" THEN [s EXCEPT !.out = Append(@, DoneEvent), !.pc = "closed"]
       ELSE s

ArrivedWhole == chunks <= 1 /\ pending = <<>>

\* C14: when an event stream that arrived whole has ended without a
\* transport failure, the events emitted are those of the same stream
\* without its malformed data lines (payloads that are not JSON, or JSON
\* that is not an object), and no error payload is among them.
C14_MalformedFragmentDropped ==
    (/\ kind \in {"openai", "claude"}
     /\ st.pc = "closed"
     /\ ~st.failed
     /\ ArrivedWhole) =>
        /\ st.out = SSEOneChunk(kind, WellFormedOnly(upstream)).out
        /\ \A i \in 1..Len(st.out) : st.out[i] # ErrorEvent

\* ------------------------------------------------- credential claims
\* a step that is one choose_backend call, the call it adds and the
\* descriptor of the backend the call resolved to
NewChoice == Len(calls') = Len(calls) + 1
Choice == calls'[Len(calls')].result
ChoiceBackend == Lookup(BACKENDS_CONFIG.backends, Choice.backend_name)
PlaceholdersFilled(template, headers, api_key) ==
    \A n \in DOMAIN template :
        \A j \in 1..Len(template[n].tokens) :
            (template[n].is_str /\ template[n].tokens[j] = Placeholder) =>
                headers[n].tokens[j] = api_key

\* C15: every choose_backend call that resolves to a backend whose
\* api_key_env names a variable that is set when the call is made returns
\* that variable's value of the moment as api_key and in every placeholder
\* of the headers, whatever the variable held at import or at an earlier
\* call.
C15_CredentialReadAtCall ==
    [][(/\ NewChoice
        /\ Choice.status = 200
        /\ ChoiceBackend.api_key_env \in DOMAIN environ.now) =>
            LET value == environ.now[ChoiceBackend.api_key_env]
            IN /\ Choice.api_key = value
               /\ PlaceholdersFilled(TemplateOf(ChoiceBackend), Choice.headers, value)]_vars

\* two requests for the same model, the variable changed in between, each
\* got the value of its moment
C15_Witness ==
    /\ Len(calls) = 2
    /\ calls[1].model = calls[2].model
    /\ calls[1].via = calls[2].via
    /\ calls[1].result.status = 200
    /\ calls[2].result.status = 200
    /\ calls[1].result.api_key = "k1"
    /\ calls[2].result.api_key = "k2"
    /\ PlaceholdersFilled(TemplateOf(BACKENDS_CONFIG.backends[1]), calls[2].result.headers, "k2")

\* C16: a choose_backend call for a backend whose api_key_env names a
\* variable that is set neither now nor was at import fails; it returns
\* no credential.
C16_MissingCredentialFails ==
    [][(/\ NewChoice
        /\ Choice.backend_name # ""
        /\ ChoiceBackend.api_key_env # ""
        /\ ChoiceBackend.api_key_env \notin DOMAIN environ.now
        /\ ChoiceBackend.api_key_env \notin DOMAIN environ.at_import) =>
            Choice.status # 200]_vars

\* C17: the headers of every successful choose_backend call have the names
\* of the backend's template; a str value with the placeholder has every
\* placeholder replaced by the api_key returned, and every other value is
\* the template's.
C17_HeadersExpanded ==
    \A i \in 1..Len(calls) :
        LET r == calls[i].result
            template == TemplateOf(Lookup(BACKENDS_CONFIG.backends, r.backend_name))
        IN r.status = 200 =>
            /\ DOMAIN r.headers = DOMAIN template
            /\ \A n \in DOMAIN template :
                IF template[n].is_str /\ HasPlaceholder(template[n])
                THEN /\ ~HasPlaceholder(r.headers[n])
                     /\ \A j \in 1..Len(template[n].tokens) :
                            template[n].tokens[j] = Placeholder =>
                                r.headers[n].tokens[j] = r.api_key
                ELSE r.headers[n] = template[n]

\* a template with a key header and a fixed header has been expanded
C17_Witness ==
    \E i \in 1..Len(calls) :
        LET r == calls[i].result
        IN /\ r.status = 200
           /\ r.api_key \in Credentials
           /\ DOMAIN r.headers = {"x-api-key", "anthropic-version"}
           /\ r.headers["x-api-key"] = Str(<<r.api_key>>)
           /\ r.headers["anthropic-version"] = Str(<<"2023-06-01">>)

C19_IdNeverEmpty ==
    payload.by # "" =>
        /\ "id" \in DOMAIN payload.out
        /\ payload.out["id"] # ""

\* ------------------------------------------------------ model listing
Listed == calls # <<>> /\ calls[1].via = "list_models"
Listing == calls[1].result
BackendsListed == {BACKENDS_CONFIG.backends[k].name : k \in 1..Len(BACKENDS_CONFIG.backends)}
HasModelEntry(k, m) ==
    \E e \in Listing.data :
        e.id = m /\ e.backend = BACKENDS_CONFIG.backends[k].name /\ e.alias_for = <<>>
AliasEntriesOf(a) ==
    {e \in Listing.data : e.id = a /\ e.alias_for = BACKENDS_CONFIG.model_aliases[a]}
EntriesWellFormed ==
    /\ Listing.object = "list"
    /\ \A e \in Listing.data : e.object = "model" /\ e.backend \in BackendsListed
    /\ \A k \in 1..Len(BACKENDS_CONFIG.backends) :
        \A m \in BACKENDS_CONFIG.backends[k].models : HasModelEntry(k, m)

\* C20 as stated: the listing is a "list" of "model" entries, one for
\* every model of every backend and one for every alias of the alias
\* table, and every entry names a backend of the registry.
C20_AsStated ==
    Listed =>
        /\ EntriesWellFormed
        /\ \A a \in DOMAIN BACKENDS_CONFIG.model_aliases : Cardinality(AliasEntriesOf(a)) = 1

\* C20: the listing is a "list" of "model" entries, one for every model of
\* every backend and one for every alias whose target get_backend_for_model
\* resolves, with the backend it resolves to; an alias whose target it
\* refuses has no entry; every entry names a backend of the registry.
C20_ResolvableAliasesListed ==
    Listed =>
        /\ EntriesWellFormed
        /\ \A a \in DOMAIN BACKENDS_CONFIG.model_aliases :
            LET r == get_backend_for_model(BACKENDS_CONFIG, BACKENDS_CONFIG.model_aliases[a])
            IN IF r.status = 200
               THEN /\ Cardinality(AliasEntriesOf(a)) = 1
                    /\ \A e \in AliasEntriesOf(a) : e.backend = r.backend
               ELSE AliasEntriesOf(a) = {}

\* a listing with an entry for one alias and none for another, whose
\* target no backend serves
C20_Witness ==
    /\ Listed
    /\ \E a, b \in DOMAIN BACKENDS_CONFIG.model_aliases :
        /\ AliasEntriesOf(a) # {}
        /\ AliasEntriesOf(b) = {}
    /\ \E e \in Listing.data : e.alias_for = <<>>

\* ------------------------------------------- Gemini non-streaming answers
Converted == payload.by = "convert_gemini_to_openai_response"
\* the texts of the parts that have one, in order
TextsInOrder(parts) ==
    LET with == SelectSeq(parts, LAMBDA p : p.has_text)
        RECURSIVE Cat(_)
        Cat(k) == IF k = 0 THEN <<>> ELSE Cat(k - 1) \o with[k].text
    IN Cat(Len(with))

\* C21: the content of a converted Gemini answer is the concatenation, in
\* order, of the text of all parts of candidates[0]; finish_reason is the
\* image of finishReason under the table, "stop" when it is absent or has
\* another value, and so one of stop, length, content_filter; usage counts
\* that the answer lacks are 0.
C21_GeminiTranslateResponse ==
    Converted =>
        LET d == payload.data
            out == payload.out
        IN /\ (d.candidates = "list" /\ d.content) => out.content = TextsInOrder(d.parts)
           /\ out.finish_reason =
                (CASE d.finishReason = "STOP" -> "stop"
                   [] d.finishReason = "MAX_TOKENS" -> "length"
                   [] d.finishReason \in {"SAFETY", "RECITATION"} -> "content_filter"
                   [] OTHER -> "stop")
           /\ out.finish_reason \in {"stop", "length", "content_filter"}
           /\ d.usageMetadata = "absent" =>
                out.usage = [prompt_tokens |-> 0, completion_tokens |-> 0, total_tokens |-> 0]
           /\ d.usageMetadata = "partial" =>
                out.usage.completion_tokens = 0 /\ out.usage.total_tokens = 0

\* two text parts and a SAFETY finish have been converted
C21_Witness ==
    /\ Converted
    /\ payload.data.parts = <<GeminiPart(TRUE, <<"a">>), GeminiPart(TRUE, <<"b">>)>>
    /\ payload.data.finishReason = "SAFETY"
    /\ payload.out.content = <<"a", "b">>
    /\ payload.out.finish_reason = "content_filter"

\* -------------------------------------------- OpenAI-compatible answers
Formatted == payload.by = "format_openai_response"
FiveKeys == {"id", "object", "created", "model", "choices"}

\* C22: format_openai_response returns a payload with the five keys as it
\* is; otherwise its result has object "chat.completion", the requested
\* model and the upstream choices, or the one choice made of the message,
\* or of the content, of a payload without choices; formatting the result
\* again returns it unchanged.
C22_OpenAITranslateResponse ==
    Formatted =>
        LET d == payload.data
            out == payload.out
        IN /\ IF FiveKeys \subseteq DOMAIN d THEN out = d
              ELSE /\ out.object = "chat.completion"
                   /\ out.model = "g"
                   /\ "choices" \in DOMAIN d => out.choices = d["choices"]
                   /\ ("choices" \notin DOMAIN d /\ "message" \in DOMAIN d) =>
                        out.choices = "message"
                   /\ ({"choices", "message"} \cap DOMAIN d = {} /\ "content" \in DOMAIN d) =>
                        out.choices = "content"
           /\ format_openai_response(out, "g") = out

\* a content-only payload has been formatted
C22_Witness ==
    /\ Formatted
    /\ DOMAIN payload.data = {"content"}
    /\ payload.out.choices = "content"
    /\ payload.out.object = "chat.completion"

\* ------------------------------------------- Gemini stream claims, continued
\* the elements of the array the upstream sent
ElementsOf(body) ==
    CHOOSE objs \in SeqsUpTo(GeminiObjects, MaxElems) : GeminiBody(objs) = body

\* the positions of the elements whose candidates[0] has a finishReason
Finishing(objs) == {k \in 1..Len(objs) : ParseObject(objs[k]).finish # ""}

ContentCount ==
    Cardinality({k \in 1..Len(st.out) :
                    st.out[k].type = "chunk" /\ st.out[k].finish_reason = ""})

\* C23: in a Gemini stream read without a failure, the first element whose
\* candidates[0] has a finishReason ends the output: the last two events are
\* one chunk with the mapped finish_reason and an empty delta, then [DONE];
\* there is no other finish chunk, and no element after that one has
\* produced an event, wherever the transport cut the body.
C23_FinishEndsStream ==
    (kind = "gemini" /\ st.pc = "closed" /\ ~st.failed) =>
        LET objs == ElementsOf(upstream)
        IN Finishing(objs) # {} =>
            LET first == Min(Finishing(objs))
            IN /\ Len(st.out) >= 2
               /\ Last(st.out) = DoneEvent
               /\ st.out[Len(st.out) - 1] =
                      ChunkEvent(<<>>, FinishReason(ParseObject(objs[first]).finish))
               /\ FinishCount = 1
               /\ DoneCount = 1
               /\ ContentCount <= first

\* the array at the head of the upstream, up to and including its "]"
ArrayOf(body) ==
    CHOOSE objs \in SeqsUpTo(GeminiObjects, MaxElems) : StartsWith(body, GeminiBody(objs))

\* the part of the upstream handed to the generator so far holds the "]"
BracketReceived ==
    /\ chunks > 0
    /\ Len(upstream) - Len(pending) >= Len(GeminiBody(ArrayOf(upstream)))

\* C24: once the "]" that closes the array has been received, the Gemini
\* normalizer does not go back to read a chunk the upstream still has, and
\* when it has stopped its output ends with [DONE] and holds no more events
\* than the array alone gives: nothing after the "]" produced an event.
C24_ClosingBracketStops ==
    (kind = "gemini" /\ ~st.failed /\ BracketReceived) =>
        /\ ~(st.pc = "reading" /\ pending # <<>>)
        /\ st.pc = "closed" =>
              /\ st.out # <<>>
              /\ Last(st.out) = DoneEvent
              /\ DoneCount = 1
              /\ Len(st.out) <= Len(GeminiOneChunk(GeminiBody(ArrayOf(upstream))).out)

\* the output when every element of the array is handed to the conversion
\* as one object, in order, until one of them ends the stream
RECURSIVE FramedRun(_, _)
FramedRun(s, objs) ==
    IF objs = <<>> \/ s.pc = "closed" THEN s
    ELSE FramedRun(ConvertObject([s EXCEPT !.obj_buffer = Head(objs), !.inside_obj = TRUE]),
                   Tail(objs))

FramedOutput(objs) ==
    LET s == FramedRun([StreamStart EXCEPT !.started = TRUE], objs)
    IN IF s.pc = "closed" THEN s.out ELSE GeminiFinish(s).out

HasBraceInText(obj) ==
    \E k \in 1..Len(ParseObject(obj).parts) :
        \E j \in 1..Len(ParseObject(obj).parts[k]) :
            ParseObject(obj).parts[k][j] \in {"{", "}"}

\* the whole body came as one chunk and the generator has finished
ReadWhole == kind = "gemini" /\ st.pc = "closed" /\ ~st.failed /\ chunks = 1 /\ pending = <<>>

\* C25: a Gemini body that arrives whole and has an element whose text holds
\* a brace character gives the events of its elements framed one by one:
\* the brace in the string does not change where the object ends, its text
\* is emitted, and the elements after it are emitted as usual.
C25_BracesInStrings ==
    (ReadWhole /\ \E k \in 1..Len(ElementsOf(upstream)) : HasBraceInText(ElementsOf(upstream)[k]))
        => st.out = FramedOutput(ElementsOf(upstream))

\* the contents of the delta chunks emitted so far, joined in order
RECURSIVE JoinContents(_)
JoinContents(events) ==
    IF events = <<>> THEN <<>>
    ELSE (IF Head(events).type = "chunk" /\ Head(events).finish_reason = ""
          THEN Head(events).content ELSE <<>>) \o JoinContents(Tail(events))

\* C26: at every point of a Gemini stream the contents of the delta chunks
\* emitted so far, joined in order, are text_accum, also when one candidate
\* carries several text parts; and no emitted delta chunk has an empty
\* content.
C26_DeltasAreAccumulator ==
    kind = "gemini" =>
        /\ JoinContents(st.out) = st.text_accum
        /\ \A k \in 1..Len(st.out) :
              (st.out[k].type = "chunk" /\ st.out[k].finish_reason = "")
                  => st.out[k].content # <<>>

\* the number of upstream characters handed to the generator so far
Received == Len(upstream) - Len(pending)

\* C27: while the Gemini generator scans or waits for a chunk, inside_obj
\* holds exactly when brace_level >= 1 and exactly when obj_buffer is not
\* empty, brace_level is never negative, and obj_buffer is a run of
\* consecutive upstream characters that starts at an opening brace: nothing
\* between objects is in it and no character of the object is in it twice,
\* also when the object spans several chunks.
C27_ParserInvariant ==
    (kind = "gemini" /\ st.pc \in {"reading", "scanning"}) =>
        /\ st.inside_obj <=> st.brace_level >= 1
        /\ st.inside_obj <=> st.obj_buffer # <<>>
        /\ st.brace_level >= 0
        /\ st.inside_obj =>
              \E p \in 1..Received :
                  /\ p + Len(st.obj_buffer) - 1 <= Received
                  /\ st.obj_buffer = SubSeq(upstream, p, p + Len(st.obj_buffer) - 1)
                  /\ upstream[p] = "{"

\* ------------------------------------------------- resolver precedence
\* C28: with t the requested id after the alias lookup, an id that is an
\* alias key is routed by t alone, also when the id itself is in a model
\* set; if any backend lists t the result is a backend that lists t, also
\* when an earlier backend owns a prefix of t; and if none lists t the
\* result is the first backend in insertion order that owns a prefix of t.
C28_ResolverPrecedence ==
    Called =>
        LET t == Hopped
            listing == {k \in Indexes : HasModel(k, t)}
            prefixing == {k \in Indexes : HasPrefix(k, t)}
        IN /\ call.model \in DOMAIN Aliases => t = Aliases[call.model]
           /\ listing # {} =>
                \E k \in listing : call.result = Resolved(Backends[k].name)
           /\ (listing = {} /\ prefixing # {}) =>
                call.result = Resolved(Backends[Min(prefixing)].name)
           /\ (listing = {} /\ prefixing = {}) => call.result.status = 400

\* an aliased id that its own backend lists, routed by its target to a later
\* backend that lists the target, past an earlier backend owning a prefix
C28_Witness ==
    /\ Called
    /\ Len(Backends) >= 2
    /\ call.model \in DOMAIN Aliases
    /\ Hopped # call.model
    /\ HasModel(1, call.model)
    /\ HasPrefix(1, Hopped)
    /\ ~HasModel(1, Hopped)
    /\ HasModel(2, Hopped)
    /\ call.result = Resolved(Backends[2].name)

\* ------------------------------------------------------ upstream POSTs
\* C29: a chat-completion request makes at most one upstream POST: none
\* when its body is not JSON, its messages are missing or empty or its model
\* cannot be resolved, and never a second one after a timeout, a transport
\* failure or a non-2xx answer.
C29_AtMostOnePost ==
    http.pc # "none" =>
        /\ http.posts <= 1
        /\ (\/ ~http.inbound.json_ok
            \/ http.inbound.messages \in {"missing", "empty"}
            \/ Unroutable(BACKENDS_CONFIG, http.inbound.model)) => http.posts = 0
        /\ (http.pc = "sent" /\ http.posts = 1) => http.backend # ""

\* the one POST timed out and the request has been answered
C29_Witness ==
    /\ http.pc = "sent"
    /\ http.posts = 1
    /\ http.upstream = Timeout
    /\ http.response.status_code \in {500, 504}

\* ------------------------------------------- OpenAI-compatible stream
\* the lines before the first "data: [DONE]" line
RECURSIVE BeforeDone(_)
BeforeDone(lines) ==
    IF lines = <<>> \/ Head(lines) = DoneLine THEN <<>>
    ELSE <<Head(lines)>> \o BeforeDone(Tail(lines))

\* the data lines among them whose payload is JSON
JsonPayloads(lines) ==
    SelectSeq(BeforeDone(lines), LAMBDA l : l.data /\ l.json \in {"object", "scalar"})

\* C30: an OpenAI-compatible stream read to its end without a failure has
\* emitted one event for every data line with a JSON payload that precedes
\* the first [DONE] line, in upstream order (for an object, the chunk with
\* its delta and finish_reason), and after them exactly one [DONE], whether
\* the upstream sent one or not; nothing after the upstream [DONE] is there.
C30_OneEventPerPayload ==
    (kind = "openai" /\ st.pc = "closed" /\ ~st.failed) =>
        LET sent == JsonPayloads(upstream)
        IN /\ Len(st.out) = Len(sent) + 1
           /\ Last(st.out) = DoneEvent
           /\ \A k \in 1..Len(sent) :
                 sent[k].json = "object" =>
                     st.out[k] = ChunkEvent(sent[k].text, sent[k].finish)

\* ------------------------------------------------------- Claude stream
\* the lines before the terminal event: message_stop or "data: [DONE]"
RECURSIVE BeforeTerminal(_)
BeforeTerminal(lines) ==
    IF lines = <<>> \/ Head(lines) \in {StopLine, DoneLine} THEN <<>>
    ELSE <<Head(lines)>> \o BeforeTerminal(Tail(lines))

\* the delta texts of the content_block_delta events, joined in order
RECURSIVE JoinDeltaTexts(_)
JoinDeltaTexts(lines) ==
    IF lines = <<>> THEN <<>>
    ELSE (IF Head(lines).data /\ Head(lines).type = "content_block_delta"
          THEN Head(lines).text ELSE <<>>) \o JoinDeltaTexts(Tail(lines))

TextDeltas(lines) ==
    SelectSeq(lines, LAMBDA l : l.data /\ l.type = "content_block_delta" /\ l.text # <<>>)

\* C31: a Claude stream read to its end without a failure has emitted, for
\* the content_block_delta events before the terminal event, one chunk per
\* delta text in upstream order, so that the emitted contents joined are the
\* upstream delta texts joined; no other event before the terminal one and
\* nothing after it has added a content chunk.
C31_ClaudeDeltasForwarded ==
    (kind = "claude" /\ st.pc = "closed" /\ ~st.failed) =>
        LET deltas == TextDeltas(BeforeTerminal(upstream))
            content == SelectSeq(st.out, LAMBDA e : e.type = "chunk" /\ e.finish_reason = "")
        IN /\ JoinContents(st.out) = JoinDeltaTexts(BeforeTerminal(upstream))
           /\ Len(content) = Len(deltas)
           /\ \A k \in 1..Len(deltas) : content[k] = ChunkEvent(deltas[k].text, "")

\* -------------------------------------------------------- failed reloads
\* C33: a reload whose configuration file cannot be read or parsed, or
\* whose conversion raises, leaves the registry as it was: the table after
\* it is the table before it, every model resolves as before, and the table
\* is neither empty nor the hard-coded fallback unless it was so before.
C33_FailedReloadKeepsRegistry ==
    \A k \in 1..Len(calls) :
        calls[k].file.state \in {"unparsable", "unconvertible"} =>
            /\ calls[k].after = calls[k].before
            /\ \A m \in ModelIds :
                  get_backend_for_model(calls[k].after, m)
                      = get_backend_for_model(calls[k].before, m)

\* ---------------------------------------------------- concurrent streams
\* the generator run alone on the chunks one request has received
RECURSIVE AloneRun(_, _, _)
AloneRun(k, s, cs) ==
    IF cs = <<>> \/ s.pc = "closed" THEN s
    ELSE AloneRun(k, ChunkStep(k, s, Head(cs)), Tail(cs))

AloneOutput(k, cs, ended) ==
    LET s == AloneRun(k, StreamStart, cs)
    IN IF ended /\ s.pc # "closed" THEN EndStep(k, s).out ELSE s.out

C34_ListingMatchesRouting ==
    Listed =>
        \A a \in DOMAIN BACKENDS_CONFIG.model_aliases :
            LET r == get_backend_for_model(BACKENDS_CONFIG, a)
            IN IF r.status = 200
               THEN /\ Cardinality(AliasEntriesOf(a)) = 1
                    /\ \A e \in AliasEntriesOf(a) : e.backend = r.backend
               ELSE AliasEntriesOf(a) = {}

\* ------------------------------------------------ the model id forwarded
Forwarded ==
    /\ calls # <<>>
    /\ calls[1].via = "proxy_chat_completions"
    /\ calls[1].result.status = 200
PassedThrough ==
    /\ calls[1].result.backend = "openai"
    /\ ~calls[1].result.stream
    /\ FiveKeys \subseteq DOMAIN calls[1].result.upstream

\* C35 as stated: the model sent upstream and the model of the returned
\* non-streaming answer are the model id of the inbound request, also when
\* that id is an alias.
C35_AsStated ==
    Forwarded =>
        /\ calls[1].result.sent_model = calls[1].model
        /\ ~calls[1].result.stream => calls[1].result.answer_model = calls[1].model

\* C35 (amended): the model sent upstream is the model id of the inbound
\* request, also when that id is an alias; the model of the non-streaming
\* answer is that id too, except when an OpenAI-compatible upstream answered
\* with a payload that has the five keys: that payload is returned as it is,
\* with the model the upstream named.
C35_ModelNotRewritten ==
    Forwarded =>
        /\ calls[1].result.sent_model = calls[1].model
        /\ ~calls[1].result.stream =>
              calls[1].result.answer_model =
                  IF PassedThrough THEN calls[1].result.upstream["model"] ELSE calls[1].model

\* a request for an alias of a Claude model: the alias went upstream and
\* came back in the answer
C35_Witness ==
    /\ Forwarded
    /\ calls[1].model \in DOMAIN BACKENDS_CONFIG.model_aliases
    /\ calls[1].result.backend = "claude"
    /\ ~calls[1].result.stream
    /\ calls[1].result.sent_model = calls[1].model
    /\ calls[1].result.answer_model = calls[1].model

\* ---------------------------------------------------- the Gemini endpoint
\* C36: a request routed to Gemini calls the base URL configured for the
\* Gemini backend, followed by the model name and :streamGenerateContent
\* when streaming, :generateContent otherwise; a configuration with another
\* Gemini base URL has another URL called.
C36_GeminiUrlFromRegistry ==
    (Forwarded /\ calls[1].result.backend = "gemini") =>
        calls[1].result.url =
            [base |-> BACKENDS_CONFIG.gemini_backend_url[1],
             model |-> calls[1].model,
             endpoint |-> IF calls[1].result.stream THEN ":streamGenerateContent"
                          ELSE ":generateContent"]

\* ------------------------------------------------ the translated request
TranslatedBy(adapter) == payload.by # "" /\ payload.by[1] = adapter
HasContent(m) == "content" \in DOMAIN m /\ m["content"] # ""
\* every message that has content names its role
RolesGiven == \A i \in DOMAIN payload.data["messages"] :
    HasContent(payload.data["messages"][i]) => "role" \in DOMAIN payload.data["messages"][i]
KeptForGemini(m) == HasContent(m) /\ m["role"] # "system"
KeptForClaude(m) == HasContent(m) /\ m["role"] \in {"user", "assistant"}

\* C37: the Gemini payload's contents are, in order, exactly the inbound
\* messages with non-empty content and a role other than system, each with
\* its text under parts[1].text and with role "model" for an assistant
\* message and "user" for a user message; temperature and max_tokens go to
\* generationConfig (max_tokens as maxOutputTokens), and generationConfig is
\* absent when the request gives neither.
C37_GeminiRequestTranslated ==
    (TranslatedBy("gemini") /\ RolesGiven) =>
        LET kept == SelectSeq(payload.data["messages"], KeptForGemini)
            json == payload.out.json
        IN /\ payload.out.status = 200
           /\ Len(json["contents"]) = Len(kept)
           /\ \A i \in 1..Len(kept) :
                /\ json["contents"][i].parts = <<[text |-> kept[i]["content"]]>>
                /\ kept[i]["role"] \in {"user", "assistant"} =>
                      /\ "role" \in DOMAIN json["contents"][i]
                      /\ json["contents"][i]["role"] =
                             (IF kept[i]["role"] = "assistant" THEN "model" ELSE "user")
           /\ ("generationConfig" \in DOMAIN json) <=>
                  ({"temperature", "max_tokens"} \cap DOMAIN payload.data # {})
           /\ "temperature" \in DOMAIN payload.data =>
                  json["generationConfig"]["temperature"] = payload.data["temperature"]
           /\ "max_tokens" \in DOMAIN payload.data =>
                  json["generationConfig"]["maxOutputTokens"] = payload.data["max_tokens"]

ClaudeConverted == payload.by = "convert_claude_to_openai_response"
IsTextBlock(block) == "type" \in DOMAIN block /\ block["type"] = "text" /\ "text" \in DOMAIN block
RECURSIVE JoinTexts(_)
JoinTexts(blocks) ==
    IF blocks = <<>> THEN <<>> ELSE <<Head(blocks)["text"]>> \o JoinTexts(Tail(blocks))
TextOfBlocks == JoinTexts(SelectSeq(payload.data.content, IsTextBlock))
AllObjects == \A i \in DOMAIN payload.data.content : IsObject(payload.data.content[i])
OneAssistantChoice ==
    /\ Len(payload.out.choices) = 1
    /\ payload.out.choices[1].index = 0
    /\ payload.out.choices[1].message.role = "assistant"

\* C39 as stated: the answer's content is the concatenation, in order, of
\* the texts of the upstream blocks of type "text"; the legacy completion is
\* used only when content is absent; finish_reason is "stop" when the
\* upstream stop_reason is end_turn and the upstream stop_reason otherwise;
\* there is exactly one choice, index 0, role assistant.
C39_AsStated ==
    ClaudeConverted =>
        /\ payload.data.content_is # "absent" =>
               payload.out.choices[1].message.content = TextOfBlocks
        /\ payload.data.content_is = "absent" =>
               payload.out.choices[1].message.content =
                   (IF payload.data.completion # "" THEN <<payload.data.completion>> ELSE <<>>)
        /\ payload.data.stop_reason = "end_turn" => payload.out.choices[1].finish_reason = "stop"
        /\ payload.data.stop_reason \notin {"", "end_turn"} =>
               payload.out.choices[1].finish_reason = payload.data.stop_reason
        /\ OneAssistantChoice

\* C39 (amended): when the upstream content is a non-empty list the answer's
\* content is the concatenation, in order, of the texts of its blocks of
\* type "text", and empty if some block is not an object; when content is
\* absent, not a list or an empty list, the answer is the legacy completion
\* if there is one and empty otherwise; finish_reason is "stop" when the
\* upstream stop_reason is end_turn or absent and the upstream stop_reason
\* otherwise; there is exactly one choice, index 0, role assistant.
C39_ClaudeAnswerConverted ==
    ClaudeConverted =>
        /\ payload.out.choices[1].message.content =
              (IF payload.data.content_is = "list" /\ payload.data.content # <<>>
               THEN (IF AllObjects THEN TextOfBlocks ELSE <<>>)
               ELSE IF payload.data.completion # "" THEN <<payload.data.completion>>
               ELSE <<>>)
        /\ payload.out.choices[1].finish_reason =
              (IF payload.data.stop_reason \in {"", "end_turn"} THEN "stop"
               ELSE payload.data.stop_reason)
        /\ OneAssistantChoice

\* two text blocks around nothing else, ended by end_turn, with a legacy
\* completion that is not used
C39_Witness ==
    /\ ClaudeConverted
    /\ payload.data.content_is = "list"
    /\ Len(payload.data.content) = 2
    /\ payload.data.completion = "legacy"
    /\ payload.data.stop_reason = "end_turn"
    /\ payload.out.choices[1].message.content = <<"b", "a">>
    /\ payload.out.choices[1].finish_reason = "stop"

\* ----------------------------------------------- the 400 for invalid JSON
\* C40: the gateway answers 400 "Invalid JSON in request body" only when
\* the body of the inbound request is not JSON: a request with a JSON body,
\* messages and a model that resolves, whose upstream answers 200 with a
\* body that is not JSON, is not answered with that 400.
C40_InvalidJsonMeansInbound ==
    (http.pc = "sent"
        /\ http.response = JSONResponse(400, <<"Invalid JSON in request body">>)) =>
        ~http.inbound.json_ok

====
